---- MODULE Spec2Model ----
(***************************************************************************)
(* X-Shield: the moderation pipeline of the content script                 *)
(* (src/unnamed/part_001), the background service worker                   *)
(* (src/background.js) and the classification relay (src/server.js).       *)
(*                                                                         *)
(* The module holds these state machines, among others, over one set of    *)
(* variables:                                                              *)
(*   SpecCache    the verdict cache of the background (mirror + storage)   *)
(*   SpecOracle   classifyBatch with its retry loop and the relay's        *)
(*                60 s subprocess timeout                                  *)
(*   SpecTicks    HEARTBEAT handlers queued on the storage mutex           *)
(*   SpecQuota    HEARTBEAT handlers together with the dailyReset alarm,   *)
(*                the popup's settings writes and the other handlers that  *)
(*                write storage                                            *)
(*   SpecContent  the content script: detection, batching, resolution of   *)
(*                verdicts onto elements, navigation                       *)
(* Text is a sequence of UTF-16 code units, a fingerprint is the sequence  *)
(* of hex digits that contentHash returns.                                 *)
(***************************************************************************)
EXTENDS Integers, Sequences, FiniteSets, TLC

(***************************************************************************)
(* Bounds of the model                                                     *)
(***************************************************************************)
\* largest value of the clock (hours) in SpecCache
MaxClock == 26
\* number of setCacheEntry calls in SpecCache
MaxPuts == 3
\* number of HEARTBEAT messages in SpecTicks
MaxTicks == 8
\* largest number of items of one classifyBatch call in SpecOracle
MaxBatch == 3
\* longest time (seconds) a request is watched while it stays unanswered
MaxWait == 62
\* number of tracking ids in use at a time in SpecContent
MaxIds == 2
\* number of navigations of the page in SpecContent
MaxPages == 1
\* longest text hashed in SpecHash
MaxText == 4
\* number of HEARTBEAT messages in SpecQuota
MaxQuotaTicks == 3
\* largest number of items counted in dailyStats
MaxStats == 2
\* cache calls that await the first load of the mirror together
MaxLoads == 2
\* verdicts applied to one element in a row
MaxApplies == 3
\* open x.com tabs at the lockout
MaxTabs == 3
\* navigations and counted verdicts while one element is observed again
MaxViews == 2
MaxCounted == 3
\* nodes the host adds and responses that arrive in SpecObserver
MaxHostAdds == 2
MaxResponses == 2
\* CLASSIFY_BATCH handlers that update the statistics in SpecStats
MaxHandlers == 2

(***************************************************************************)
(* Program constants                                                       *)
(***************************************************************************)
\* background.js:16  CACHE_TTL_MS = 24 h; the cache clock counts hours
CACHE_TTL == 24
\* background.js:17  CACHE_MAX_ENTRIES = 500, scaled to 2 so that the
\* capacity branch of setCacheEntry is exercised
CACHE_MAX_ENTRIES == 2
\* background.js:18  DEFAULT_TIME_LIMIT_SECONDS
DEFAULT_TIME_LIMIT_SECONDS == 900
\* background.js:672  usage.seconds += 10
HEARTBEAT_SECONDS == 10
\* part_001:16  BATCH_SIZE = 5, scaled to 2
BATCH_SIZE == 2
\* background.js:433  maxAttempts
MAX_RETRY_ATTEMPTS == 2
\* background.js:445  setTimeout(resolve, 1000), in seconds
RETRY_DELAY == 1
\* server.js:143  setTimeout(..., 60000), in seconds
CLAUDE_TIMEOUT == 60
\* background.js:612  delayInMinutes: 0.05, in seconds
LOCKOUT_GRACE == 3

(***************************************************************************)
(* Generic helpers                                                         *)
(***************************************************************************)
Range(s) == {s[i] : i \in 1..Len(s)}

Max(a, b) == IF a >= b THEN a ELSE b

\* Array.prototype.filter
RECURSIVE SeqFilter(_, _)
SeqFilter(s, keep) ==
  IF s = <<>> THEN <<>>
  ELSE IF Head(s) \in keep THEN <<Head(s)>> \o SeqFilter(Tail(s), keep)
       ELSE SeqFilter(Tail(s), keep)

(***************************************************************************)
(* contentHash (background.js:215-222, part_001:40-47)                     *)
(* A 32-bit value is kept as <<high 16 bits, low 16 bits>>.                *)
(***************************************************************************)
\* hash = ((hash << 5) - hash) + charCode; hash |= 0
\* the step of the classic djb2, 33 * hash + c
HashStep_Times33(h, c) ==
  LET lo == 33 * h[2] + c
      hi == 33 * h[1] + (lo \div 65536)
  IN  <<hi % 65536, lo % 65536>>

HashStep(h, c) ==
  LET lo == 31 * h[2] + c
      hi == 31 * h[1] + (lo \div 65536)
  IN  <<hi % 65536, lo % 65536>>

RECURSIVE HashFold(_, _, _)
HashFold(str, i, h) ==
  IF i > Len(str) THEN h ELSE HashFold(str, i + 1, HashStep(h, str[i]))

\* the four hex digits of a 16-bit value
Hex4(x) == << x \div 4096, (x \div 256) % 16, (x \div 16) % 16, x % 16 >>

RECURSIVE StripZeros(_)
StripZeros(d) ==
  IF Len(d) > 1 /\ Head(d) = 0 THEN StripZeros(Tail(d)) ELSE d

\* (hash >>> 0).toString(16)
ToHex(h) == StripZeros(Hex4(h[1]) \o Hex4(h[2]))

\* 5381 = 0x1505
contentHash(str) == ToHex(HashFold(str, 1, <<0, 5381>>))

(***************************************************************************)
(* Verdict normalization (background.js:382-403)                           *)
(***************************************************************************)
\* String.prototype.toLowerCase on ASCII code units
LowerChar(c) == IF c >= 65 /\ c <= 90 THEN c + 32 ELSE c
\* a comparison that is sensitive to case
toLowerCase_AsIs(s) == s
toLowerCase(s) == [i \in 1..Len(s) |-> LowerChar(s[i])]

NOURISH_VERDICTS ==
  { <<110,111,117,114,105,115,104>>,                 \* nourish
    <<98,101,110,101,102,105,99,105,97,108>>,        \* beneficial
    <<110,117,114,116,117,114,101>>,                 \* nurture
    <<112,114,111,109,111,116,101>> }                \* promote
SHOW_VERDICTS ==
  { <<115,104,111,119>>,                             \* show
    <<97,108,108,111,119>>,                          \* allow
    <<97,112,112,114,111,118,101>>,                  \* approve
    <<107,101,101,112>>,                             \* keep
    <<100,105,115,112,108,97,121>>,                  \* display
    <<118,105,115,105,98,108,101>> }                 \* visible
DISTILL_VERDICTS ==
  { <<100,105,115,116,105,108,108>>,                 \* distill
    <<114,101,119,114,105,116,101>>,                 \* rewrite
    <<115,117,109,109,97,114,105,122,101>> }         \* summarize

\* JavaScript values of the oracle's JSON.  `undefined` is what
\* Array.prototype.find returns when nothing matches, `null` may stand in
\* the verdict list itself.
Undefined == [t |-> "undefined"]
Null == [t |-> "null"]
\* a string value with code units s
Str(s) == [t |-> "string", s |-> s]
\* any value whose typeof is not 'string' (number, object, missing)
NotAString == [t |-> "other"]
\* An entry of the verdict list: id is the position i of "tweet_i", or a
\* number outside the batch for an unknown or missing id; reason is ""
\* when absent; distilled is <<>> when absent, null or empty.
RawEntry(id, verdict, reason, distilled) ==
  [t |-> "object", id |-> id, verdict |-> verdict, reason |-> reason,
   distilled |-> distilled]

\* x || dflt on strings
OrElse(x, dflt) == IF x = "" THEN dflt ELSE x

normalizeVerdict(serverVerdict) ==
  IF serverVerdict.t # "object" THEN
    [verdict |-> "block", reason |-> "no verdict returned", distilled |-> <<>>]
  ELSE IF serverVerdict.verdict.t # "string" THEN
    [verdict |-> "block", reason |-> "no verdict returned", distilled |-> <<>>]
  ELSE
    LET v == toLowerCase(serverVerdict.verdict.s)
    IN  IF v \in NOURISH_VERDICTS THEN
          [verdict |-> "nourish",
           reason |-> OrElse(serverVerdict.reason, "nourishing content"),
           distilled |-> <<>>]
        ELSE IF v \in DISTILL_VERDICTS THEN
          [verdict |-> "distill",
           reason |-> OrElse(serverVerdict.reason, "distilled"),
           distilled |-> serverVerdict.distilled]
        ELSE IF v \in SHOW_VERDICTS THEN
          [verdict |-> "allow",
           reason |-> OrElse(serverVerdict.reason, "approved"),
           distilled |-> <<>>]
        ELSE
          [verdict |-> "block",
           reason |-> OrElse(serverVerdict.reason, "filtered"),
           distilled |-> <<>>]

\* the value of a field that an object does not have
NoHash == <<>>

filterAllVerdicts_DropsLast(tweets, reason) ==
  [i \in 1..(Len(tweets) - 1) |->
     [id |-> tweets[i].id, verdict |-> "block",
      reason |-> OrElse(reason, "classification unavailable"),
      hash |-> NoHash, distilled |-> <<>>]]

\* filterAllVerdicts (background.js:371-377): the entries carry no hash
filterAllVerdicts(tweets, reason) ==
  [i \in 1..Len(tweets) |->
     [id |-> tweets[i].id, verdict |-> "block",
      reason |-> OrElse(reason, "classification unavailable"),
      hash |-> NoHash, distilled |-> <<>>]]

(***************************************************************************)
(* State                                                                   *)
(***************************************************************************)
VARIABLES
  \* background.js:227-228, the in-memory mirror: [loaded, entries], with
  \* loaded = FALSE for cacheMemory === null; entries in Object.keys order
  cacheMemory,
  cacheDirty,
  \* chrome.storage.local 'cache'
  storedCache,
  \* Date.now(), in hours
  now,
  \* the last completed cache call and what it returned
  cacheRet,
  \* history: for every fingerprint the last setCacheEntry call made for it
  puts,
  \* number of setCacheEntry calls made
  putCount

cacheVars ==
  <<cacheMemory, cacheDirty, storedCache, now, cacheRet, puts, putCount>>

VARIABLES
  \* settings.classificationMode with a usable key: "local" or "api"
  oMode,
  \* the argument of classifyBatch: a sequence of [id, text]
  oTweets,
  \* where the call stands: "fetch" (awaiting fetch), "delay" (awaiting the
  \* retry timer), "returned", "threw"
  oPc,
  \* the loop variable `attempt`
  oAttempt,
  \* the request on the wire: st is "idle" (not sent), "sent" (unanswered;
  \* in local mode the relay's subprocess runs and its timer is armed),
  \* "answered" (status and body wait for the background), "refused"
  oWire,
  \* seconds since the request was sent, or since the retry timer was set
  oWaited,
  \* serverResult / apiResult: [error, body]
  oServerResult,
  \* what the call returned
  oResult

oracleVars ==
  <<oMode, oTweets, oPc, oAttempt, oWire, oWaited, oServerResult, oResult>>

VARIABLES
  \* chrome.storage.local without the 'cache' key: [dailyUsage, locked,
  \* settings, dailyStats]
  storage,
  \* storageMutex (background.js:310): the handlers chained on it, in order
  lockQueue,
  \* number of HEARTBEAT messages received
  hbArrived,
  \* per HEARTBEAT handler: where it stands, its locals `usage` and
  \* `timeLimit`
  hbPc,
  hbUsage,
  hbLimit,
  \* the last sendResponse of a HEARTBEAT handler: [t, h, timeRemaining,
  \* locked]
  hbResp,
  \* number of LOCKOUT broadcasts made by enforceLockout
  lockoutsSent,
  \* the closeLockoutTabs alarm is set
  closeAlarm,
  \* the dailyReset alarm is due; where its handler stands; its local `today`
  alarmDue,
  drPc,
  drToday,
  \* what the last CHECK_LOCKOUT handler answered
  checkResp

quotaVars ==
  <<storage, lockQueue, hbArrived, hbPc, hbUsage, hbLimit, hbResp,
    lockoutsSent, closeAlarm, alarmDue, drPc, drToday, checkResp>>

VARIABLES
  \* per tweet element of the page: element.isConnected, the text that
  \* extractTweetContent reads from it, and its x-shield classes
  connected,
  elText,
  classList,
  \* location.href, as the number of the page in the visit: the pages with
  \* an odd number are thread pages written by the author of ByThreadAuthor
  location,
  \* part_001:29-33
  lastUrl,
  verdictCache,
  elementMap,
  batchQueue,
  batchTimer,
  \* the flushBatch calls that await sendMessage: a set of [items, st, resp,
  \* oracle, omitted] with st "sent" (the background has not answered) or
  \* "answered"; oracle and omitted record what the oracle did for the batch
  flights

contentVars ==
  <<connected, elText, classList, location, lastUrl, verdictCache,
    elementMap, batchQueue, batchTimer, flights>>

VARIABLES
  \* a call of one function on its own: the function and its arguments, and
  \* what the call returned
  fnCall,
  fnRet

callVars == <<fnCall, fnRet>>

VARIABLES
  \* the cache calls that found cacheMemory === null and await their
  \* chrome.storage.local.get (background.js:231-232), in call order:
  \* [op, hash]
  cacheLoads,
  \* the fingerprints whose CLASSIFY_BATCH handler missed the cache and
  \* awaits classifyBatch (background.js:701-716)
  classifying,
  \* a flushCacheToStorage call awaits its chrome.storage.local.set
  \* (background.js:238)
  flushPending

loadVars == <<cacheLoads, classifying, flushPending>>

VARIABLES
  \* part_001:35
  observerPauseDepth,
  \* the microtask queue of the page's event loop, oldest first: "continue"
  \* (a flushBatch call resumes after its await), "notify" (the
  \* MutationObserver's callback is due) and "resume" (the callback queued
  \* by resumeObserver, part_001:620-622)
  microtasks,
  \* the MutationObserver's record queue: [by, node] for every node added
  \* under document.body since the last callback, by the host page or by
  \* reorderBatch
  mutationRecords,
  \* the records whose added node the callback has given to scanForTweets
  scanned,
  \* the children of the timeline, as cell numbers in document order
  timeline,
  \* how many nodes the host has added and how many responses have arrived
  hostAdds,
  responses

observerVars ==
  <<observerPauseDepth, microtasks, mutationRecords, scanned, timeline,
    hostAdds, responses>>

VARIABLES
  \* the CLASSIFY_BATCH handlers in updateDailyStats (background.js:359-366):
  \* per handler where it is ("none", "get": awaits the read of
  \* getDailyStats, "fresh": awaits the write of the fresh record, "set":
  \* awaits its own write, "done"), the record it holds, and the counts of
  \* the verdicts it returns
  statPc,
  statHeld,
  statCounts

statVars == <<statPc, statHeld, statCounts>>

vars ==
  <<cacheVars, oracleVars, quotaVars, contentVars, callVars, loadVars,
    observerVars, statVars>>

\* the variables outside each part
notLoads ==
  <<oracleVars, quotaVars, contentVars, callVars, observerVars, statVars>>
notCache == <<oracleVars, quotaVars, contentVars, callVars, loadVars,
  observerVars, statVars>>
notOracle == <<quotaVars, contentVars, callVars, loadVars,
  observerVars, statVars>>
notQuota == <<oracleVars, contentVars, callVars, loadVars,
  observerVars, statVars>>
notContent == <<oracleVars, quotaVars, callVars, loadVars,
  observerVars, statVars>>
notCall ==
  <<cacheVars, oracleVars, quotaVars, contentVars, loadVars, observerVars,
    statVars>>
notObserver ==
  <<cacheVars, oracleVars, quotaVars, contentVars, callVars, loadVars,
    statVars>>
notStats ==
  <<cacheVars, oracleVars, contentVars, callVars, loadVars, observerVars>>

\* no cache call awaits anything
LoadsIdle ==
  /\ cacheLoads = <<>>
  /\ classifying = {}
  /\ flushPending = FALSE

\* no CLASSIFY_BATCH handler is in updateDailyStats
StatHandlers == 1..MaxHandlers
Counts(filtered, shown, nourished, distilled) ==
  [filtered |-> filtered, shown |-> shown, nourished |-> nourished,
   distilled |-> distilled]
StatsIdle ==
  /\ statPc = [h \in StatHandlers |-> "none"]
  /\ statHeld = [h \in StatHandlers |-> [date |-> 0, filtered |-> 0, shown |-> 0, analyzed |-> 0, nourished |-> 0, distilled |-> 0]]
  /\ statCounts = [h \in StatHandlers |-> Counts(0, 0, 0, 0)]

\* the page's event loop at rest, the observer running
ObserverIdle ==
  /\ observerPauseDepth = 0
  /\ microtasks = <<>>
  /\ mutationRecords = <<>>
  /\ scanned = {}
  /\ timeline = <<>>
  /\ hostAdds = 0
  /\ responses = 0

\* no call, no result
NoCall == [fn |-> "none"]
NoRet == [t |-> "none"]
CallIdle ==
  /\ fnCall = NoCall
  /\ fnRet = NoRet

(***************************************************************************)
(* The verdict cache (background.js:227-290)                               *)
(***************************************************************************)
\* what getCacheEntry returns for a miss
Miss == [t |-> "null"]

CacheEntry(hash, verdict, reason, timestamp, distilled) ==
  [t |-> "entry", hash |-> hash, verdict |-> verdict, reason |-> reason,
   timestamp |-> timestamp, distilled |-> distilled]

CacheHashes(entries) == {entries[i].hash : i \in 1..Len(entries)}

\* cacheMemory[hash]
CacheLookup(entries, hash) ==
  IF hash \in CacheHashes(entries)
  THEN entries[CHOOSE i \in 1..Len(entries) : entries[i].hash = hash]
  ELSE Miss

\* delete cacheMemory[hash]
RECURSIVE CacheDelete(_, _)
CacheDelete(entries, hash) ==
  IF entries = <<>> THEN <<>>
  ELSE IF Head(entries).hash = hash THEN CacheDelete(Tail(entries), hash)
       ELSE <<Head(entries)>> \o CacheDelete(Tail(entries), hash)

\* A property key made of decimal digits only is an array index: such keys
\* are enumerated first, in ascending numeric order, the others follow in
\* insertion order.
IsIndexKey(hash) == \A i \in 1..Len(hash) : hash[i] < 10

RECURSIVE DigitsLess(_, _)
DigitsLess(a, b) ==
  IF a = <<>> THEN FALSE
  ELSE IF Head(a) # Head(b) THEN Head(a) < Head(b)
       ELSE DigitsLess(Tail(a), Tail(b))

IndexLess(a, b) ==
  Len(a) < Len(b) \/ (Len(a) = Len(b) /\ DigitsLess(a, b))

\* where a new property lands in the enumeration order
RECURSIVE InsertKey(_, _)
InsertKey(entries, e) ==
  IF entries = <<>> THEN <<e>>
  ELSE IF IsIndexKey(e.hash)
          /\ (~ IsIndexKey(Head(entries).hash)
              \/ IndexLess(e.hash, Head(entries).hash))
       THEN <<e>> \o entries
       ELSE <<Head(entries)>> \o InsertKey(Tail(entries), e)

\* cacheMemory[hash] = entry
CacheAssign(entries, e) ==
  IF e.hash \in CacheHashes(entries)
  THEN [i \in 1..Len(entries) |->
          IF entries[i].hash = e.hash THEN e ELSE entries[i]]
  ELSE InsertKey(entries, e)

\* keys.sort((a, b) => timestamp(a) - timestamp(b)): a stable sort
RECURSIVE InsertByTimestamp(_, _)
InsertByTimestamp(sorted, e) ==
  IF sorted = <<>> THEN <<e>>
  ELSE IF e.timestamp < Head(sorted).timestamp THEN <<e>> \o sorted
       ELSE <<Head(sorted)>> \o InsertByTimestamp(Tail(sorted), e)

RECURSIVE SortByTimestamp(_)
SortByTimestamp(entries) ==
  IF entries = <<>> THEN <<>>
  ELSE InsertByTimestamp(SortByTimestamp(SubSeq(entries, 1, Len(entries) - 1)),
                         entries[Len(entries)])

RECURSIVE DeleteAll(_, _)
DeleteAll(entries, hashes) ==
  IF entries = <<>> THEN <<>>
  ELSE IF Head(entries).hash \in hashes THEN DeleteAll(Tail(entries), hashes)
       ELSE <<Head(entries)>> \o DeleteAll(Tail(entries), hashes)

\* loadCacheIntoMemory (background.js:230-234): the entries of the mirror
\* once the load has completed
loadCacheIntoMemory(mem, stored) ==
  IF mem.loaded THEN mem.entries ELSE stored

\* getCacheEntry with the expiry test off by one (>= instead of >)
getCacheEntry_ExpiresEarly(entries, dirty, hash, t) ==
  LET entry == CacheLookup(entries, hash)
  IN  IF entry = Miss THEN
        [ret |-> Miss, entries |-> entries, dirty |-> dirty]
      ELSE IF t - entry.timestamp >= CACHE_TTL THEN
        [ret |-> Miss, entries |-> CacheDelete(entries, hash), dirty |-> TRUE]
      ELSE
        [ret |-> entry, entries |-> entries, dirty |-> dirty]

\* getCacheEntry (background.js:245-257) on a loaded mirror:
\* [ret, entries, dirty]
getCacheEntry(entries, dirty, hash, t) ==
  LET entry == CacheLookup(entries, hash)
  IN  IF entry = Miss THEN
        [ret |-> Miss, entries |-> entries, dirty |-> dirty]
      ELSE IF t - entry.timestamp > CACHE_TTL THEN
        [ret |-> Miss, entries |-> CacheDelete(entries, hash), dirty |-> TRUE]
      ELSE
        [ret |-> entry, entries |-> entries, dirty |-> dirty]

\* the eviction taking the newest entries instead of the oldest
Evict_TakesNewest(entries) ==
  IF Len(entries) >= CACHE_MAX_ENTRIES THEN
    LET sorted == SortByTimestamp(entries)
        toRemove == SubSeq(sorted, CACHE_MAX_ENTRIES, Len(entries))
    IN  DeleteAll(entries, CacheHashes(toRemove))
  ELSE entries

\* the eviction of setCacheEntry (background.js:262-270)
Evict(entries) ==
  IF Len(entries) >= CACHE_MAX_ENTRIES THEN
    LET sorted == SortByTimestamp(entries)
        toRemove == SubSeq(sorted, 1, Len(entries) - CACHE_MAX_ENTRIES + 1)
    IN  DeleteAll(entries, CacheHashes(toRemove))
  ELSE entries

\* setCacheEntry (background.js:259-276) on a loaded mirror: the entries
\* afterwards (cacheDirty becomes true)
setCacheEntry(entries, hash, verdict, reason, distilled, t) ==
  CacheAssign(Evict(entries), CacheEntry(hash, verdict, reason, t, distilled))

\* cleanExpiredCache (background.js:278-290), the sweep
RECURSIVE SweepExpired(_, _)
SweepExpired(entries, t) ==
  IF entries = <<>> THEN <<>>
  ELSE IF t - Head(entries).timestamp > CACHE_TTL
       THEN SweepExpired(Tail(entries), t)
       ELSE <<Head(entries)>> \o SweepExpired(Tail(entries), t)

(***************************************************************************)
(* OracleClient: classifyBatch / classifyBatchAPI (background.js:425-592)  *)
(* and the relay's classifyWithClaude (server.js:121-166)                  *)
(***************************************************************************)
\* `tweet_${i}` for the item at index i (1-based here, 0-based there)
PositionalId(i) == i - 1

\* rawVerdicts.find((v) => v.id === `tweet_${i}`): reading v.id of a null
\* entry throws a TypeError
RECURSIVE Find(_, _)
Find(rawVerdicts, id) ==
  IF rawVerdicts = <<>> THEN [threw |-> FALSE, value |-> Undefined]
  ELSE IF Head(rawVerdicts).t = "null" THEN [threw |-> TRUE, value |-> Undefined]
  ELSE IF Head(rawVerdicts).id = id THEN [threw |-> FALSE, value |-> Head(rawVerdicts)]
  ELSE Find(Tail(rawVerdicts), id)

\* tweet.text + (tweet.imageUrls || []).join(','): the content script sends
\* no imageUrls
HashedText(tweet) == tweet.text \o <<>>

\* normalizeAndCacheVerdicts (background.js:405-420), from index i on:
\* [threw, results, entries]
RECURSIVE normalizeAndCacheVerdicts(_, _, _, _, _, _)
normalizeAndCacheVerdicts(tweets, rawVerdicts, i, results, entries, t) ==
  IF i > Len(tweets) THEN
    [threw |-> FALSE, results |-> results, entries |-> entries]
  ELSE
    LET tweet == tweets[i]
        hash == contentHash(HashedText(tweet))
        found == Find(rawVerdicts, PositionalId(i))
        n == normalizeVerdict(found.value)
    IN  IF found.threw THEN
          [threw |-> TRUE, results |-> results, entries |-> entries]
        ELSE
          normalizeAndCacheVerdicts(tweets, rawVerdicts, i + 1,
            Append(results, [id |-> tweet.id, verdict |-> n.verdict,
                             reason |-> n.reason, hash |-> hash,
                             distilled |-> n.distilled]),
            setCacheEntry(entries, hash, n.verdict, n.reason, n.distilled, t),
            t)

\* An HTTP body as the background reads it: kind is "notjson" (json()
\* rejects), "null" (the JSON value null), or "object"; verdicts is then
\* [array, list]: body.verdicts in local mode, JSON.parse of the content
\* text in api mode, with array = FALSE for anything that is not an array
\* (and, in api mode, parsed = FALSE when JSON.parse throws).
NoBody == [kind |-> "none", parsed |-> FALSE, array |-> FALSE, list |-> <<>>]
BodyNotJson == [kind |-> "notjson", parsed |-> FALSE, array |-> FALSE, list |-> <<>>]
BodyNull == [kind |-> "null", parsed |-> FALSE, array |-> FALSE, list |-> <<>>]
BodyUnparsedText == [kind |-> "object", parsed |-> FALSE, array |-> FALSE, list |-> <<>>]
BodyNotArray == [kind |-> "object", parsed |-> TRUE, array |-> FALSE, list |-> <<>>]
BodyVerdicts(list) == [kind |-> "object", parsed |-> TRUE, array |-> TRUE, list |-> list]

NoResult == [error |-> "", body |-> NoBody]
NoWire == [st |-> "idle", status |-> 0, body |-> NoBody]
Sent == [st |-> "sent", status |-> 0, body |-> NoBody]
Answered(status, body) == [st |-> "answered", status |-> status, body |-> body]

\* One pass of the loop of attemptServerCall / attemptAPICall
\* (background.js:432-476, 507-561) once the fetch has settled: threw is
\* TRUE when fetch rejected, else status and body are the response.
\* Gives [retry, result].
attemptServerCall(attempt, threw, status, body) ==
  LET again(err) == IF attempt < MAX_RETRY_ATTEMPTS
                    THEN [retry |-> TRUE, result |-> NoResult]
                    ELSE [retry |-> FALSE,
                          result |-> [error |-> err, body |-> NoBody]]
  IN  IF threw THEN again("request failed")
      ELSE IF status < 200 \/ status > 299 THEN again("server error")
      ELSE IF body.kind = "notjson" THEN again("malformed response")
      ELSE [retry |-> FALSE, result |-> [error |-> "", body |-> body]]

\* classifyBatch after attemptServerCall (background.js:478-492) and
\* classifyBatchAPI after attemptAPICall (background.js:563-591):
\* [threw, results, entries]
classifyBatch(mode, tweets, serverResult, entries, t) ==
  IF serverResult.error # "" THEN
    [threw |-> FALSE, results |-> filterAllVerdicts(tweets, serverResult.error),
     entries |-> entries]
  ELSE IF serverResult.body.kind = "null" THEN
    \* body.verdicts / body.content of null
    [threw |-> TRUE, results |-> <<>>, entries |-> entries]
  ELSE IF mode = "api" /\ ~ serverResult.body.parsed THEN
    [threw |-> FALSE,
     results |-> filterAllVerdicts(tweets, "malformed verdict JSON from API"),
     entries |-> entries]
  ELSE IF ~ serverResult.body.array THEN
    [threw |-> FALSE,
     results |-> filterAllVerdicts(tweets, "malformed verdict structure"),
     entries |-> entries]
  ELSE
    normalizeAndCacheVerdicts(tweets, serverResult.body.list, 1, <<>>,
                              entries, t)

\* the relay's timer (server.js:140-143) is due
TimerDue(mode, waited) == mode = "local" /\ waited >= CLAUDE_TIMEOUT

(***************************************************************************)
(* QuotaManager: usage, limit, lockout (background.js:312-366, 597-686,    *)
(* 777-860) and the popup's limit setting (popup.js:73-88)                 *)
(***************************************************************************)
\* settings without a numeric timeLimitSeconds
NoLimit == -1

\* A date string is kept as what the code can tell of it: todayString()
\* (background.js:296-301) gives Today, and every date taken before the last
\* midnight is Earlier
Today == 0
Earlier == 1
todayString == Today

FreshStats(day) ==
  [date |-> day, filtered |-> 0, shown |-> 0, analyzed |-> 0,
   nourished |-> 0, distilled |-> 0]

\* getDailyUsage (background.js:322-333) once the read returned:
\* [stale, usage]; a stale record is replaced by a fresh one in storage
getDailyUsage(dailyUsage, day) ==
  IF dailyUsage.date # day
  THEN [stale |-> TRUE, usage |-> [date |-> day, seconds |-> 0]]
  ELSE [stale |-> FALSE, usage |-> dailyUsage]

\* getTimeLimit (background.js:335-340)
getTimeLimit(settings) ==
  IF settings.timeLimitSeconds # NoLimit
  THEN settings.timeLimitSeconds ELSE DEFAULT_TIME_LIMIT_SECONDS

LimitReached_Strict(seconds, timeLimit) == seconds > timeLimit

\* background.js:678  usage.seconds >= timeLimit
LimitReached(seconds, timeLimit) == seconds >= timeLimit

\* updateDailyStats (background.js:345-366) on the stored record
updateDailyStats(st, day, filtered, shown, nourished, distilled) ==
  LET stats == IF st.dailyStats.date # day THEN FreshStats(day)
               ELSE st.dailyStats
  IN  [st EXCEPT !.dailyStats =
         [date |-> stats.date,
          filtered |-> stats.filtered + filtered,
          shown |-> stats.shown + shown,
          analyzed |-> stats.analyzed + filtered + shown,
          nourished |-> stats.nourished + nourished,
          distilled |-> stats.distilled + distilled]]

saveTimeLimit_Unlocks(st, minutes) ==
  [st EXCEPT !.settings =
               [st.settings EXCEPT !.timeLimitSeconds = minutes * 60],
             !.locked = st.locked /\ minutes * 60 <= st.dailyUsage.seconds]

\* saveTimeLimit (popup.js:73-88): the minutes are clamped to 1..1440 and
\* written to settings.timeLimitSeconds
saveTimeLimit(st, minutes) ==
  LET value == IF minutes < 1 THEN 1
               ELSE IF minutes > 1440 THEN 1440 ELSE minutes
  IN  [st EXCEPT !.settings =
         [st.settings EXCEPT !.timeLimitSeconds = value * 60]]

\* SET_MODE (background.js:793-798)
setMode(st, mode) ==
  [st EXCEPT !.settings =
     [st.settings EXCEPT !.classificationMode =
        IF mode = "api" THEN "api" ELSE "local"]]

MayRun_Unchained(queue, h) == h \in Range(queue)

\* withStorageLock (background.js:312-317): fn runs when everything chained
\* before it has settled
MayRun(queue, h) == queue # <<>> /\ Head(queue) = h

\* a handler's locals before it reads them
NoUsage == [date |-> Earlier, seconds |-> 0]

NoResponse == [t |-> "none", h |-> 0, timeRemaining |-> 0, locked |-> FALSE]
Response(h, timeRemaining, locked) ==
  [t |-> "resp", h |-> h, timeRemaining |-> timeRemaining, locked |-> locked]

\* the answer to CHECK_LOCKOUT (background.js:637)
NoAnswer == [t |-> "none", locked |-> FALSE]
LockoutAnswer(locked) == [t |-> "resp", locked |-> locked]

Handlers == 1..MaxTicks

\* no HEARTBEAT, no alarm, no popup
QuotaIdle ==
  /\ storage = [dailyUsage |-> [date |-> Today, seconds |-> 0],
                locked |-> FALSE,
                settings |-> [timeLimitSeconds |-> DEFAULT_TIME_LIMIT_SECONDS,
                              classificationMode |-> "local",
                              feedReorderingEnabled |-> TRUE],
                dailyStats |-> FreshStats(Today)]
  /\ lockQueue = <<>>
  /\ hbArrived = 0
  /\ hbPc = [h \in Handlers |-> "none"]
  /\ hbUsage = [h \in Handlers |-> NoUsage]
  /\ hbLimit = [h \in Handlers |-> 0]
  /\ hbResp = NoResponse
  /\ lockoutsSent = 0
  /\ closeAlarm = FALSE
  /\ alarmDue = FALSE
  /\ drPc = "idle"
  /\ drToday = Today
  /\ checkResp = NoAnswer

(***************************************************************************)
(* Content script (part_001)                                               *)
(***************************************************************************)
\* the tweet elements of the page, in document order
Elements == {1, 2}
\* no element (null / undefined)
NoElement == 0
\* the text of element e when the page renders it: "a", "b"
ElementText(e) == <<96 + e>>
\* the handle in the href of the element's User-Name link: "al", "bo"
ElementHandle(e) == IF e = 1 THEN <<97, 108>> ELSE <<98, 111>>
\* the handle in the path of a thread page, as its URL spells it: "Al"
ThreadHandle == <<65, 108>>
\* no author (null)
NoAuthor == <<>>
\* the elements written by the author of the thread in the URL
ByThreadAuthor == {1}
\* the text the oracle rewrites to: "X"
DistilledText == <<88>>
\* the text of another tweet, which the page renders into an element it
\* re-uses: "c"
RecycledText == <<99>>

Ids == 1..MaxIds

\* part_001:24
Pending == "x-shield-pending"
Approved == "x-shield-approved"
Filtered == "x-shield-filtered"
Distilled == "x-shield-distilled"
Nourished == "x-shield-nourished"
Unclassified == "x-shield-unclassified"
X_SHIELD_CLASSES ==
  {Pending, Approved, Filtered, Distilled, Nourished, Unclassified}

\* the fingerprints the content script can compute
CsHashes == {contentHash(ElementText(e)) : e \in Elements}
              \cup {contentHash(DistilledText), contentHash(RecycledText)}

NoVerdict == [t |-> "none", verdict |-> "", distilled |-> <<>>]
Cached(verdict, distilled) ==
  [t |-> "v", verdict |-> verdict, distilled |-> distilled]

\* what sendMessage resolves with (part_001:54-70): null, or the response
\* of the background with its verdicts
RespNone == [t |-> "none", verdicts |-> <<>>]
RespNull == [t |-> "null", verdicts |-> <<>>]
RespVerdicts(list) == [t |-> "verdicts", verdicts |-> list]

\* the content script's state as one record
Cs ==
  [classList |-> classList, elText |-> elText, verdictCache |-> verdictCache,
   elementMap |-> elementMap, batchQueue |-> batchQueue,
   batchTimer |-> batchTimer, flights |-> flights]

SetCs(c) ==
  /\ classList' = c.classList
  /\ elText' = c.elText
  /\ verdictCache' = c.verdictCache
  /\ elementMap' = c.elementMap
  /\ batchQueue' = c.batchQueue
  /\ batchTimer' = c.batchTimer
  /\ flights' = c.flights

ItemIds(items) == {items[k].id : k \in 1..Len(items)}
ItemOf(items, id) == items[CHOOSE k \in 1..Len(items) : items[k].id = id]

\* the tracking ids held by the queue, a flight or elementMap
LiveIds(c) ==
  ItemIds(c.batchQueue)
    \cup UNION {ItemIds(b.items) : b \in c.flights}
    \cup {i \in Ids : c.elementMap[i] # NoElement}

\* part_001:542: an id no other item has
FreshId(c) ==
  CHOOSE i \in Ids \ LiveIds(c) : \A j \in Ids \ LiveIds(c) : i <= j

\* A tweet element on its own: its x-shield classes, whether it has a
\* [data-testid="tweetText"] node, the textContent of that node, and the
\* number of .x-shield-distilled-label spans in it
Article(classes, hasTextEl, text, labels) ==
  [classList |-> classes, hasTextEl |-> hasTextEl, text |-> text,
   labels |-> labels]

\* applyDistilledText (part_001:213-227)
applyDistilledText(article, distilledText) ==
  IF ~ article.hasTextEl THEN article
  ELSE [article EXCEPT !.text = distilledText,
                       !.labels = IF @ = 0 THEN 1 ELSE @]

\* applyVerdict (part_001:186-208)
applyVerdict(article, verdict, distilled) ==
  LET cleared == [article EXCEPT
                    !.classList = @ \ {Pending, Filtered, Approved, Distilled,
                                       Nourished}]
  IN  IF verdict = "nourish" THEN
        [cleared EXCEPT !.classList = @ \cup {Nourished}]
      ELSE IF verdict = "allow" THEN
        [cleared EXCEPT !.classList = @ \cup {Approved}]
      ELSE IF verdict = "distill" THEN
        LET marked == [cleared EXCEPT !.classList = @ \cup {Distilled}]
        IN  IF distilled # <<>> THEN applyDistilledText(marked, distilled)
            ELSE marked
      ELSE [cleared EXCEPT !.classList = @ \cup {Filtered}]

\* applyVerdict on element `element` of the page; the elements of the page
\* have a text node, and their labels are not kept
ApplyToElement(c, element, verdict, distilled) ==
  LET after == applyVerdict(Article(c.classList[element], TRUE,
                                    c.elText[element], 0),
                            verdict, distilled)
  IN  [c EXCEPT !.classList[element] = after.classList,
                !.elText[element] = after.text]

NewFlight(items) ==
  [items |-> items, st |-> "sent", resp |-> RespNone, oracle |-> "none",
   omitted |-> {}]

\* flushBatch that sends the queue and leaves it as it is
flushBatch_KeepsQueue(c) ==
  IF c.batchQueue = <<>> THEN [c EXCEPT !.batchTimer = FALSE]
  ELSE [c EXCEPT
          !.batchTimer = FALSE,
          !.flights = @ \cup {NewFlight(c.batchQueue)},
          !.elementMap =
             [i \in Ids |->
                IF i \in ItemIds(c.batchQueue)
                THEN ItemOf(c.batchQueue, i).element ELSE @[i]]]

\* flushBatch up to its await (part_001:277-307)
flushBatch(c) ==
  IF c.batchQueue = <<>> THEN [c EXCEPT !.batchTimer = FALSE]
  ELSE [c EXCEPT
          !.batchTimer = FALSE,
          !.batchQueue = <<>>,
          !.flights = @ \cup {NewFlight(c.batchQueue)},
          !.elementMap =
             [i \in Ids |->
                IF i \in ItemIds(c.batchQueue)
                THEN ItemOf(c.batchQueue, i).element ELSE @[i]]]

\* addToBatchQueue that flushes only when the queue has grown past the size
addToBatchQueue_FlushPastSize(c, item) ==
  LET queued == [c EXCEPT !.batchQueue = Append(@, item),
                          !.batchTimer = IF Len(c.batchQueue) = 0
                                         THEN TRUE ELSE @]
  IN  IF Len(queued.batchQueue) > BATCH_SIZE THEN flushBatch(queued)
      ELSE queued

\* addToBatchQueue (part_001:232-244)
addToBatchQueue(c, item) ==
  LET queued == [c EXCEPT !.batchQueue = Append(@, item),
                          !.batchTimer = IF Len(c.batchQueue) = 0
                                         THEN TRUE ELSE @]
  IN  IF Len(queued.batchQueue) >= BATCH_SIZE THEN flushBatch(queued)
      ELSE queued

\* processTweet without its guard
processTweet_Unguarded(c, article) ==
  LET text == c.elText[article]
      hash == contentHash(text)
      hidden == [c EXCEPT !.classList[article] = @ \cup {Pending}]
      cached == c.verdictCache[hash]
  IN  IF cached.t = "v"
      THEN ApplyToElement(hidden, article, cached.verdict, cached.distilled)
      ELSE addToBatchQueue(hidden,
             [id |-> FreshId(hidden), text |-> text, element |-> article,
              hash |-> hash])

\* processTweet (part_001:521-551)
processTweet(c, article) ==
  IF c.classList[article] \cap X_SHIELD_CLASSES # {} THEN c
  ELSE
    LET text == c.elText[article]
        hash == contentHash(text)
        hidden == [c EXCEPT !.classList[article] = @ \cup {Pending}]
        cached == c.verdictCache[hash]
    IN  IF cached.t = "v"
        THEN ApplyToElement(hidden, article, cached.verdict,
                            cached.distilled)
        ELSE addToBatchQueue(hidden,
               [id |-> FreshId(hidden), text |-> text, element |-> article,
                hash |-> hash])

\* scanForTweets(document.body) (part_001:568-586), from element e on
RECURSIVE scanForTweets(_, _, _)
scanForTweets(c, conn, e) ==
  IF e \notin Elements THEN c
  ELSE scanForTweets(IF conn[e] THEN processTweet(c, e) ELSE c, conn, e + 1)

\* findElementByContentHash (part_001:246-258)
findElementByContentHash(c, conn, hash) ==
  LET found == {e \in Elements :
                  /\ conn[e] /\ Pending \in c.classList[e]
                  /\ contentHash(c.elText[e]) = hash}
  IN  IF hash = NoHash \/ found = {} THEN NoElement
      ELSE CHOOSE e \in found : \A f \in found : e <= f

\* resolveElement (part_001:260-267); batchElements is the set of ids the
\* map of the batch still holds
resolveElement(c, conn, id, items, batchElements, verdictHash) ==
  LET element == IF id \in batchElements THEN ItemOf(items, id).element
                 ELSE IF id \in Ids THEN c.elementMap[id] ELSE NoElement
      hash == IF id \in ItemIds(items) THEN ItemOf(items, id).hash
              ELSE verdictHash
  IN  IF element = NoElement \/ ~ conn[element]
      THEN findElementByContentHash(c, conn, hash)
      ELSE element

\* isOnThreadPage (part_001:384-386)
isOnThreadPage(url) == url % 2 = 1

\* getThreadAuthor (part_001:388-392)
getThreadAuthor(url) ==
  IF isOnThreadPage(url) THEN toLowerCase(ThreadHandle) ELSE NoAuthor

\* getAuthorFromElement (part_001:394-406)
getAuthorFromElement(element) == toLowerCase(ElementHandle(element))

\* the override that upgrades on every page
threadOverride_AnyPage(onThread, threadAuthor, tweetAuthor, verdict) ==
  IF verdict = "block" /\ tweetAuthor = toLowerCase(ThreadHandle)
  THEN "allow" ELSE verdict

\* the thread-context override (part_001:353-358)
threadOverride(onThread, threadAuthor, tweetAuthor, verdict) ==
  IF onThread /\ verdict = "block" /\ threadAuthor # NoAuthor
     /\ tweetAuthor = threadAuthor
  THEN "allow" ELSE verdict

\* the loop caching the verdict it applies, after the override
RECURSIVE applyVerdicts_CachesApplied(_, _, _, _, _, _)
applyVerdicts_CachesApplied(c, conn, url, items, batchElements, verdicts) ==
  IF verdicts = <<>> THEN
    [c EXCEPT !.elementMap =
       [i \in Ids |-> IF i \in batchElements THEN NoElement ELSE @[i]]]
  ELSE
    LET v == Head(verdicts)
        element == resolveElement(c, conn, v.id, items, batchElements, v.hash)
        verdict == threadOverride(isOnThreadPage(url), getThreadAuthor(url),
                                  getAuthorFromElement(element), v.verdict)
        cachedC == IF v.hash # NoHash
                   THEN [c EXCEPT !.verdictCache[v.hash] =
                                     Cached(verdict, v.distilled)]
                   ELSE c
        forgot == [cachedC EXCEPT !.elementMap[v.id] = NoElement]
        applied == IF element = NoElement THEN forgot
                   ELSE ApplyToElement(forgot, element, verdict, v.distilled)
    IN  applyVerdicts_CachesApplied(applied, conn, url, items,
                                    batchElements \ {v.id}, Tail(verdicts))

\* the loop over response.verdicts and the cleanup after it
\* (part_001:322-377)
RECURSIVE applyVerdicts(_, _, _, _, _, _)
applyVerdicts(c, conn, url, items, batchElements, verdicts) ==
  IF verdicts = <<>> THEN
    [c EXCEPT !.elementMap =
       [i \in Ids |-> IF i \in batchElements THEN NoElement ELSE @[i]]]
  ELSE
    LET v == Head(verdicts)
        cachedC == IF v.hash # NoHash
                   THEN [c EXCEPT !.verdictCache[v.hash] =
                                     Cached(v.verdict, v.distilled)]
                   ELSE c
        element == resolveElement(cachedC, conn, v.id, items, batchElements,
                                  v.hash)
        verdict == threadOverride(isOnThreadPage(url), getThreadAuthor(url),
                                  getAuthorFromElement(element), v.verdict)
        forgot == [cachedC EXCEPT !.elementMap[v.id] = NoElement]
        applied == IF element = NoElement THEN forgot
                   ELSE ApplyToElement(forgot, element, verdict, v.distilled)
    IN  applyVerdicts(applied, conn, url, items, batchElements \ {v.id},
                      Tail(verdicts))

\* the null response treated as a filter verdict
markUnclassified_Filters(c, items, k) ==
  [c EXCEPT !.classList =
     [e \in Elements |->
        IF \E j \in k..Len(items) : items[j].element = e
        THEN (@[e] \ {Pending}) \cup {Filtered} ELSE @[e]],
            !.elementMap =
     [i \in Ids |-> IF i \in ItemIds(items) THEN NoElement ELSE @[i]]]

\* the null or malformed response (part_001:311-318), from item k on
RECURSIVE markUnclassified(_, _, _)
markUnclassified(c, items, k) ==
  IF k > Len(items) THEN c
  ELSE markUnclassified(
         [c EXCEPT !.classList[items[k].element] =
                      (@ \ {Pending}) \cup {Unclassified},
                   !.elementMap[items[k].id] = NoElement],
         items, k + 1)

\* flushBatch that returns on a null response and leaves the batch as it is
flushBatchContinues_LeavesPending(c, conn, loc, flight) ==
  IF flight.resp.t # "verdicts" THEN c
  ELSE applyVerdicts(c, conn, loc, flight.items,
                     ItemIds(flight.items), flight.resp.verdicts)

\* flushBatch after its await (part_001:309-378)
flushBatchContinues(c, conn, loc, flight) ==
  IF flight.resp.t # "verdicts" THEN markUnclassified(c, flight.items, 1)
  ELSE applyVerdicts(c, conn, loc, flight.items,
                     ItemIds(flight.items), flight.resp.verdicts)

VerdictClasses == {Approved, Filtered, Distilled, Nourished}

\* no page
ContentIdle ==
  /\ connected = [e \in Elements |-> FALSE]
  /\ elText = [e \in Elements |-> ElementText(e)]
  /\ classList = [e \in Elements |-> {}]
  /\ location = 0
  /\ lastUrl = 0
  /\ verdictCache = [h \in CsHashes |-> NoVerdict]
  /\ elementMap = [i \in Ids |-> NoElement]
  /\ batchQueue = <<>>
  /\ batchTimer = FALSE
  /\ flights = {}

(***************************************************************************)
(* SpecCache: the cache calls of the background, each run to completion    *)
(***************************************************************************)
\* texts whose fingerprints are cached in SpecCache: "a", "b", "c"
CacheTexts == { <<97>>, <<98>>, <<99>> }
CacheKeys == {contentHash(x) : x \in CacheTexts}
\* the verdicts setCacheEntry is called with in SpecCache
CacheVerdicts == {"allow", "block"}
\* how far the clock moves in one step: 12 h or 13 h
ClockSteps == {12, 13}

NoPut == [t |-> "none", verdict |-> "", at |-> 0]
PutOf(verdict, at) == [t |-> "put", verdict |-> verdict, at |-> at]

\* no classifyBatch call
OracleIdle ==
  /\ oMode = "local"
  /\ oTweets = <<>>
  /\ oPc = "returned"
  /\ oAttempt = 1
  /\ oWire = NoWire
  /\ oWaited = 0
  /\ oServerResult = NoResult
  /\ oResult = <<>>

InitCache ==
  /\ ObserverIdle
  /\ StatsIdle
  /\ OracleIdle
  /\ QuotaIdle
  /\ ContentIdle
  /\ CallIdle
  /\ cacheMemory = [loaded |-> FALSE, entries |-> <<>>]
  /\ cacheDirty = FALSE
  /\ storedCache \in
       { <<>>,
         <<CacheEntry(contentHash(<<97>>), "block", "filtered", 0, <<>>)>> }
  /\ now = 0
  /\ cacheRet = [op |-> "none", hash |-> <<>>, ret |-> Miss]
  /\ puts = [h \in CacheKeys |-> NoPut]
  /\ putCount = 0
  /\ LoadsIdle

\* a call of getCacheEntry(hash)
GetCacheEntryCall(hash) ==
  LET loaded == loadCacheIntoMemory(cacheMemory, storedCache)
      r == getCacheEntry(loaded, cacheDirty, hash, now)
  IN  /\ cacheMemory' = [loaded |-> TRUE, entries |-> r.entries]
      /\ cacheDirty' = r.dirty
      /\ cacheRet' = [op |-> "get", hash |-> hash, ret |-> r.ret]
      /\ UNCHANGED <<storedCache, now, puts, putCount>>
      /\ UNCHANGED notCache

\* a call of setCacheEntry(hash, verdict, reason, distilled)
SetCacheEntryCall(hash, verdict) ==
  LET loaded == loadCacheIntoMemory(cacheMemory, storedCache)
      after == setCacheEntry(loaded, hash, verdict, "r", <<>>, now)
      evicted == CacheHashes(loaded) \ CacheHashes(Evict(loaded))
  IN  /\ putCount < MaxPuts
      /\ putCount' = putCount + 1
      /\ cacheMemory' = [loaded |-> TRUE, entries |-> after]
      /\ cacheDirty' = TRUE
      /\ cacheRet' = [op |-> "set", hash |-> hash, ret |-> Miss]
      /\ puts' = [h \in CacheKeys |->
                    IF h = hash THEN PutOf(verdict, now)
                    ELSE IF h \in evicted THEN NoPut ELSE puts[h]]
      /\ UNCHANGED <<storedCache, now>>
      /\ UNCHANGED notCache

\* flushCacheToStorage (background.js:236-240), fired every 5 s
FlushCacheToStorage ==
  /\ cacheDirty /\ cacheMemory.loaded
  /\ storedCache' = cacheMemory.entries
  /\ cacheDirty' = FALSE
  /\ UNCHANGED <<cacheMemory, now, cacheRet, puts, putCount>>
  /\ UNCHANGED notCache

\* cleanExpiredCache (background.js:278-290), on activate and dailyReset
CleanExpiredCache ==
  LET loaded == loadCacheIntoMemory(cacheMemory, storedCache)
      swept == SweepExpired(loaded, now)
      dirty == cacheDirty \/ swept # loaded
  IN  /\ cacheMemory' = [loaded |-> TRUE, entries |-> swept]
      /\ storedCache' = IF dirty THEN swept ELSE storedCache
      /\ cacheDirty' = FALSE
      /\ UNCHANGED <<now, cacheRet, puts, putCount>>
      /\ UNCHANGED notCache

\* time passes
ClockAdvance(d) ==
  /\ now + d <= MaxClock
  /\ now' = now + d
  /\ UNCHANGED <<cacheMemory, cacheDirty, storedCache, cacheRet, puts, putCount>>
  /\ UNCHANGED notCache

NextCache ==
  \/ \E h \in CacheKeys : GetCacheEntryCall(h)
  \/ \E h \in CacheKeys, v \in CacheVerdicts : SetCacheEntryCall(h, v)
  \/ FlushCacheToStorage
  \/ CleanExpiredCache
  \/ \E d \in ClockSteps : ClockAdvance(d)

SpecCache == InitCache /\ [][NextCache]_vars

(***************************************************************************)
(* C10  Cache round trip: a getCacheEntry(h) made after setCacheEntry(h,   *)
(* v) returns a record with verdict v while now - timestamp <= 24 h and    *)
(* the entry was not evicted for capacity; once now - timestamp > 24 h it  *)
(* returns a miss and the entry is gone from the mirror.                   *)
(***************************************************************************)
C10_RoundTrip ==
  [][\A h \in CacheKeys :
       (GetCacheEntryCall(h) /\ puts[h].t = "put") =>
          /\ (now - puts[h].at <= CACHE_TTL) =>
                /\ cacheRet'.ret.t = "entry"
                /\ cacheRet'.ret.verdict = puts[h].verdict
          /\ (now - puts[h].at > CACHE_TTL) =>
                /\ cacheRet'.ret = Miss
                /\ h \notin CacheHashes(cacheMemory'.entries)]_vars

\* a get that hits on the last hour of the entry's life
C10_Witness ==
  /\ cacheRet.op = "get"
  /\ cacheRet.ret.t = "entry"
  /\ puts[cacheRet.hash].t = "put"
  /\ cacheRet.ret.verdict = puts[cacheRet.hash].verdict
  /\ now - puts[cacheRet.hash].at = CACHE_TTL

(***************************************************************************)
(* C11  Cache capacity: after every setCacheEntry the mirror holds at most *)
(* CACHE_MAX_ENTRIES entries; when the mirror held count >= CACHE_MAX_-    *)
(* ENTRIES entries before the call, count - CACHE_MAX_ENTRIES + 1 of them  *)
(* are evicted, none of them newer than an entry that is kept, and every   *)
(* other entry stays as it was.                                            *)
(***************************************************************************)
C11_Capacity ==
  [][\A h \in CacheKeys, v \in CacheVerdicts :
       SetCacheEntryCall(h, v) =>
         LET old == loadCacheIntoMemory(cacheMemory, storedCache)
             new == cacheMemory'.entries
             n == IF Len(old) >= CACHE_MAX_ENTRIES
                  THEN Len(old) - CACHE_MAX_ENTRIES + 1 ELSE 0
         IN  /\ Len(new) <= CACHE_MAX_ENTRIES
             /\ \E gone \in SUBSET Range(old) :
                   /\ Cardinality(gone) = n
                   /\ \A g \in gone, k \in Range(old) \ gone :
                         g.timestamp <= k.timestamp
                   /\ CacheHashes(new) =
                         (CacheHashes(old) \ {g.hash : g \in gone}) \cup {h}
                   /\ \A e \in Range(new) :
                         e.hash # h => e \in Range(old) \ gone]_vars

\* a put into the full mirror has evicted an entry that had been flushed to
\* storage, is older than every entry kept, and has not expired
C11_Witness ==
  /\ cacheRet.op = "set"
  /\ Len(cacheMemory.entries) = CACHE_MAX_ENTRIES
  /\ \E i \in 1..Len(storedCache) :
        /\ storedCache[i].hash \notin CacheHashes(cacheMemory.entries)
        /\ now - storedCache[i].timestamp <= CACHE_TTL
        /\ \A k \in 1..Len(cacheMemory.entries) :
              storedCache[i].timestamp < cacheMemory.entries[k].timestamp

(***************************************************************************)
(* C32  Eviction happens only when the insertion would exceed capacity:    *)
(* a setCacheEntry for a fingerprint that is already present in a full     *)
(* mirror replaces that entry and evicts no other entry.                   *)
(***************************************************************************)
C32_ReplaceEvictsNothing ==
  [][\A h \in CacheKeys, v \in CacheVerdicts :
       LET old == loadCacheIntoMemory(cacheMemory, storedCache)
       IN  (/\ SetCacheEntryCall(h, v)
            /\ Len(old) = CACHE_MAX_ENTRIES
            /\ h \in CacheHashes(old)) =>
              /\ CacheHashes(cacheMemory'.entries) = CacheHashes(old)
              /\ \A e \in Range(old) :
                    e.hash # h => e \in Range(cacheMemory'.entries)]_vars

(***************************************************************************)
(* SpecCacheRace: the cache calls of CLASSIFY_BATCH handlers, of the       *)
(* activate handler and of the flush timer, interleaved at their awaits    *)
(***************************************************************************)
\* the fingerprints of the tweets sent in SpecCacheRace: "a", "b"
RaceKeys == {contentHash(x) : x \in { <<97>>, <<98>> }}

\* a call that awaits the first load
LoadOf(op, hash) == [op |-> op, hash |-> hash]

InitCacheRace ==
  /\ ObserverIdle
  /\ StatsIdle
  /\ OracleIdle
  /\ QuotaIdle
  /\ ContentIdle
  /\ CallIdle
  /\ LoadsIdle
  /\ cacheMemory = [loaded |-> FALSE, entries |-> <<>>]
  /\ cacheDirty = FALSE
  /\ storedCache \in
       { <<>>,
         <<CacheEntry(contentHash(<<97>>), "block", "filtered", 0, <<>>)>> }
  /\ now = 0
  /\ cacheRet = [op |-> "none", hash |-> <<>>, ret |-> Miss]
  /\ puts = [h \in CacheKeys |-> NoPut]
  /\ putCount = 0

\* getCacheEntry(hash) from its test of cacheMemory[hash] on
\* (background.js:247-256); a handler that gets no entry classifies the
\* tweet (background.js:703-726)
GetCacheEntryRuns(entries, hash) ==
  LET r == getCacheEntry(entries, cacheDirty, hash, now)
  IN  /\ cacheMemory' = [loaded |-> TRUE, entries |-> r.entries]
      /\ cacheDirty' = r.dirty
      /\ cacheRet' = [op |-> "get", hash |-> hash, ret |-> r.ret]
      /\ classifying' = IF r.ret = Miss THEN classifying \cup {hash}
                        ELSE classifying
      /\ UNCHANGED <<storedCache, flushPending>>

\* cleanExpiredCache from its sweep on (background.js:281-289): the flush
\* writes the mirror to storage and awaits the write
CleanExpiredCacheRuns(entries) ==
  LET swept == SweepExpired(entries, now)
      dirty == cacheDirty \/ swept # entries
  IN  /\ cacheMemory' = [loaded |-> TRUE, entries |-> swept]
      /\ cacheDirty' = dirty
      /\ storedCache' = IF dirty THEN swept ELSE storedCache
      /\ flushPending' = (flushPending \/ dirty)
      /\ UNCHANGED <<cacheRet, classifying>>

\* a CLASSIFY_BATCH handler calls getCacheEntry(hash) (background.js:701):
\* with the mirror loaded the call runs on, otherwise it awaits
\* chrome.storage.local.get (background.js:231-232)
ClassifyBatchArrives(hash) ==
  /\ IF cacheMemory.loaded
     THEN /\ GetCacheEntryRuns(cacheMemory.entries, hash)
          /\ UNCHANGED cacheLoads
     ELSE /\ Len(cacheLoads) < MaxLoads
          /\ cacheLoads' = Append(cacheLoads, LoadOf("get", hash))
          /\ UNCHANGED <<cacheMemory, cacheDirty, storedCache, cacheRet,
                         classifying, flushPending>>
  /\ UNCHANGED <<now, puts, putCount>>
  /\ UNCHANGED notLoads

\* the activate handler calls cleanExpiredCache (background.js:911-912)
Activate ==
  /\ IF cacheMemory.loaded
     THEN /\ CleanExpiredCacheRuns(cacheMemory.entries)
          /\ UNCHANGED cacheLoads
     ELSE /\ Len(cacheLoads) < MaxLoads
          /\ cacheLoads' = Append(cacheLoads, LoadOf("clean", <<>>))
          /\ UNCHANGED <<cacheMemory, cacheDirty, storedCache, cacheRet,
                         classifying, flushPending>>
  /\ UNCHANGED <<now, puts, putCount>>
  /\ UNCHANGED notLoads

\* the oldest chrome.storage.local.get resolves: what it read is assigned to
\* cacheMemory (background.js:233) and the call that awaited it runs on
LoadResolves ==
  /\ cacheLoads # <<>>
  /\ cacheLoads' = Tail(cacheLoads)
  /\ IF Head(cacheLoads).op = "get"
     THEN GetCacheEntryRuns(storedCache, Head(cacheLoads).hash)
     ELSE CleanExpiredCacheRuns(storedCache)
  /\ UNCHANGED <<now, puts, putCount>>
  /\ UNCHANGED notLoads

\* classifyBatch returns to the handler that missed on hash, and
\* normalizeAndCacheVerdicts calls setCacheEntry (background.js:413, 259-276);
\* the mirror is loaded since the handler's getCacheEntry returned
ClassifyBatchReturns(hash, verdict) ==
  LET after == setCacheEntry(cacheMemory.entries, hash, verdict, "r", <<>>,
                             now)
      evicted == CacheHashes(cacheMemory.entries)
                   \ CacheHashes(Evict(cacheMemory.entries))
  IN  /\ hash \in classifying
      /\ putCount < MaxPuts
      /\ putCount' = putCount + 1
      /\ classifying' = classifying \ {hash}
      /\ cacheMemory' = [loaded |-> TRUE, entries |-> after]
      /\ cacheDirty' = TRUE
      /\ cacheRet' = [op |-> "set", hash |-> hash, ret |-> Miss]
      /\ puts' = [h \in CacheKeys |->
                    IF h = hash THEN PutOf(verdict, now)
                    ELSE IF h \in evicted THEN NoPut ELSE puts[h]]
      /\ UNCHANGED <<storedCache, now, cacheLoads, flushPending>>
      /\ UNCHANGED notLoads

\* the 5 s timer calls flushCacheToStorage, which writes the mirror
\* (background.js:237-238, 243)
FlushWrites ==
  /\ cacheDirty /\ cacheMemory.loaded
  /\ ~ flushPending
  /\ storedCache' = cacheMemory.entries
  /\ flushPending' = TRUE
  /\ UNCHANGED <<cacheMemory, cacheDirty, now, cacheRet, puts, putCount,
                 cacheLoads, classifying>>
  /\ UNCHANGED notLoads

\* the write has settled (background.js:239)
FlushSettles ==
  /\ flushPending
  /\ flushPending' = FALSE
  /\ cacheDirty' = FALSE
  /\ UNCHANGED <<cacheMemory, storedCache, now, cacheRet, puts, putCount,
                 cacheLoads, classifying>>
  /\ UNCHANGED notLoads

RaceClockAdvance(d) ==
  /\ now + d <= MaxClock
  /\ now' = now + d
  /\ UNCHANGED <<cacheMemory, cacheDirty, storedCache, cacheRet, puts,
                 putCount>>
  /\ UNCHANGED <<loadVars, notLoads>>

NextCacheRace ==
  \/ \E h \in RaceKeys : ClassifyBatchArrives(h)
  \/ Activate
  \/ LoadResolves
  \/ \E h \in RaceKeys, v \in CacheVerdicts : ClassifyBatchReturns(h, v)
  \/ FlushWrites
  \/ FlushSettles
  \/ \E d \in ClockSteps : RaceClockAdvance(d)

SpecCacheRace == InitCacheRace /\ [][NextCacheRace]_vars

(***************************************************************************)
(* C19  A read after a write is never stale under any interleaving: when   *)
(* getCacheEntry(h) returns after a setCacheEntry(h, v) has completed,     *)
(* within the TTL and without h evicted for capacity, it returns the entry *)
(* with verdict v, whatever loads and flushes ran in between.              *)
(***************************************************************************)
\* a getCacheEntry(h) called with the mirror loaded, as every call is that
\* is made after a setCacheEntry has completed: it returns at once
GetCacheEntryReturns(h) == cacheMemory.loaded /\ ClassifyBatchArrives(h)

C19_ReadAfterWrite ==
  [][\A h \in RaceKeys :
       (/\ GetCacheEntryReturns(h)
        /\ puts[h].t = "put"
        /\ now - puts[h].at <= CACHE_TTL) =>
          /\ cacheRet'.ret.t = "entry"
          /\ cacheRet'.ret.verdict = puts[h].verdict]_vars

(***************************************************************************)
(* C31  Every cached result becomes durable: a mutation of the mirror      *)
(* marks it dirty, and once mutations stop the flush ticks make the stored *)
(* cache equal to the mirror, also for a put made while a flush's write is *)
(* in progress.  flushCacheToStorage returns at once when cacheDirty is    *)
(* false, so with no write in progress a clean mirror is never written     *)
(* again: the claim requires that such a mirror equals the stored cache.   *)
(***************************************************************************)
\* no flush tick writes in this state (background.js:237)
FlushIdle == cacheMemory.loaded /\ ~ cacheDirty /\ ~ flushPending

C31_DurableWhenClean == FlushIdle => storedCache = cacheMemory.entries

(***************************************************************************)
(* SpecOracle: one classifyBatch call from its first fetch to its return   *)
(***************************************************************************)
\* the items of a call of n items: tracking ids 101.., texts "a", "b", ...
OracleBatch(n) == [i \in 1..n |-> [id |-> 100 + i, text |-> <<96 + i>>]]

LabelNourish == Str(<<110,111,117,114,105,115,104>>)
LabelSHOW == Str(<<83,72,79,87>>)
LabelRewrite == Str(<<114,101,119,114,105,116,101>>)
LabelFilter == Str(<<102,105,108,116,101,114>>)
\* the labels the oracle answers with in SpecOracle
OracleLabels == {LabelNourish, LabelSHOW, LabelRewrite, LabelFilter, NotAString}

\* the entry the oracle gives for position p
EntryFor(p, label) ==
  RawEntry(p, label, "", IF label = LabelRewrite THEN <<88>> ELSE <<>>)

\* the list with, in order, one entry for every position p < n that f does
\* not leave out (f[p] = Undefined)
RECURSIVE ListOf(_, _, _)
ListOf(f, p, n) ==
  IF p >= n THEN <<>>
  ELSE (IF f[p] = Undefined THEN <<>> ELSE <<EntryFor(p, f[p])>>)
       \o ListOf(f, p + 1, n)

\* the verdict lists of the oracle for n items: complete and partial lists
\* in order, a list with a null entry, an entry with an unknown id, two
\* entries for one position, a list out of order
RawLists(n) ==
  {ListOf(f, 0, n) : f \in [0..(n - 1) -> OracleLabels \cup {Undefined}]}
  \cup { <<Null>>,
         <<EntryFor(0, LabelSHOW), Null>>,
         <<EntryFor(99, LabelSHOW)>>,
         <<EntryFor(0, LabelNourish), EntryFor(0, LabelFilter)>>,
         <<EntryFor(1, LabelSHOW), EntryFor(0, LabelFilter)>> }

\* what a 200 response can carry
AnswerBodies(n) ==
  {BodyNotJson, BodyNull, BodyUnparsedText, BodyNotArray}
  \cup {BodyVerdicts(l) : l \in RawLists(n)}

InitOracle ==
  /\ ObserverIdle
  /\ StatsIdle
  /\ QuotaIdle
  /\ ContentIdle
  /\ CallIdle
  /\ oMode \in {"local", "api"}
  /\ oTweets \in {OracleBatch(n) : n \in 1..MaxBatch}
  /\ oPc = "fetch"
  /\ oAttempt = 1
  /\ oWire = Sent
  /\ oWaited = 0
  /\ oServerResult = NoResult
  /\ oResult = <<>>
  /\ cacheMemory = [loaded |-> FALSE, entries |-> <<>>]
  /\ cacheDirty = FALSE
  /\ storedCache = <<>>
  /\ now = 0
  /\ cacheRet = [op |-> "none", hash |-> <<>>, ret |-> Miss]
  /\ puts = [h \in CacheKeys |-> NoPut]
  /\ putCount = 0
  /\ LoadsIdle

\* the loop pass continues after the fetch settled
Settle(threw, status, body) ==
  LET r == attemptServerCall(oAttempt, threw, status, body)
      c == classifyBatch(oMode, oTweets, r.result,
                         loadCacheIntoMemory(cacheMemory, storedCache), now)
  IN  IF r.retry THEN
        /\ oPc' = "delay"
        /\ oWire' = NoWire
        /\ oWaited' = 0
        /\ UNCHANGED <<oServerResult, oResult, cacheMemory, cacheDirty>>
      ELSE
        /\ oPc' = IF c.threw THEN "threw" ELSE "returned"
        /\ oWire' = NoWire
        /\ oWaited' = 0
        /\ oServerResult' = r.result
        /\ oResult' = c.results
        /\ cacheMemory' =
             IF r.result.error = "" /\ r.result.body.array
                /\ Len(c.results) > 0
             THEN [loaded |-> TRUE, entries |-> c.entries] ELSE cacheMemory
        /\ cacheDirty' =
             IF c.entries # loadCacheIntoMemory(cacheMemory, storedCache)
             THEN TRUE ELSE cacheDirty

OracleFrame ==
  /\ UNCHANGED <<oMode, oTweets, storedCache, now, cacheRet, puts, putCount>>
  /\ UNCHANGED notOracle

\* fetch rejects: connection refused or reset (background.js:442-449)
FetchRejects ==
  /\ oPc = "fetch" /\ oWire.st = "sent"
  /\ Settle(TRUE, 0, NoBody)
  /\ oAttempt' = oAttempt
  /\ OracleFrame

\* the relay's subprocess closes (server.js:145-159) and the relay answers
\* (server.js:238-246), or the API answers
ServerAnswers(status, body) ==
  /\ oPc = "fetch" /\ oWire.st = "sent"
  /\ ~ TimerDue(oMode, oWaited)
  /\ oWire' = Answered(status, body)
  /\ oWaited' = 0
  /\ UNCHANGED <<oPc, oAttempt, oServerResult, oResult, cacheMemory, cacheDirty>>
  /\ OracleFrame

\* the relay's timer fires: the subprocess is killed and the relay answers
\* 500 (server.js:140-143, 242-246)
RelayTimeout ==
  /\ oPc = "fetch" /\ oWire.st = "sent"
  /\ TimerDue(oMode, oWaited)
  /\ oWire' = Answered(500, BodyNotArray)
  /\ oWaited' = 0
  /\ UNCHANGED <<oPc, oAttempt, oServerResult, oResult, cacheMemory, cacheDirty>>
  /\ OracleFrame

\* the background reads the response (background.js:451-474)
BackgroundReceives ==
  /\ oPc = "fetch" /\ oWire.st = "answered"
  /\ Settle(FALSE, oWire.status, oWire.body)
  /\ oAttempt' = oAttempt
  /\ OracleFrame

\* setTimeout(resolve, 1000) fires and the loop continues with the next
\* attempt (background.js:445-446)
RetryTimerFires ==
  /\ oPc = "delay" /\ oWaited >= RETRY_DELAY
  /\ oPc' = "fetch"
  /\ oAttempt' = oAttempt + 1
  /\ oWire' = Sent
  /\ oWaited' = 0
  /\ UNCHANGED <<oServerResult, oResult, cacheMemory, cacheDirty>>
  /\ OracleFrame

\* a second passes
OracleTick ==
  /\ \/ oPc = "fetch" /\ oWire.st = "sent" /\ ~ TimerDue(oMode, oWaited)
        /\ oWaited < MaxWait
     \/ oPc = "delay" /\ oWaited < RETRY_DELAY
  /\ oWaited' = oWaited + 1
  /\ UNCHANGED <<oPc, oAttempt, oWire, oServerResult, oResult, cacheMemory, cacheDirty>>
  /\ OracleFrame

NextOracle ==
  \/ FetchRejects
  \/ \E status \in {200, 500}, body \in AnswerBodies(Len(oTweets)) :
        ServerAnswers(status, IF status = 200 THEN body ELSE BodyNotArray)
  \/ RelayTimeout
  \/ BackgroundReceives
  \/ RetryTimerFires
  \/ OracleTick

SpecOracle == InitOracle /\ [][NextOracle]_vars

\* the call failed after its retries, or its body holds no verdict array
OracleFailed ==
  \/ oServerResult.error # ""
  \/ oServerResult.error = "" /\ oServerResult.body.kind = "object"
     /\ ~ oServerResult.body.array

C5_HardCeiling ==
  (oPc = "fetch" /\ oWire.st = "sent") => oWaited <= CLAUDE_TIMEOUT

(***************************************************************************)
(* C22  Retry budget: classify makes at most MAX_RETRY_ATTEMPTS attempts   *)
(* per batch, a retry starts only after RETRY_DELAY, and the fail-closed   *)
(* result is returned only when the last attempt has failed: a call that   *)
(* returns it has used every attempt.                                      *)
(***************************************************************************)
C22_RetryBudget ==
  /\ oAttempt <= MAX_RETRY_ATTEMPTS
  /\ (oPc = "delay" /\ oWaited < RETRY_DELAY) => ~ ENABLED RetryTimerFires
  /\ (oPc = "returned" /\ OracleFailed) => oAttempt = MAX_RETRY_ATTEMPTS

(***************************************************************************)
(* C23  Matching oracle entries to positions: when classify returns the    *)
(* verdicts of a response, the verdict of every item is the normalised     *)
(* verdict of the last entry of the list that carries the item's           *)
(* positional id, and entries with another id change nothing: an item      *)
(* without an entry gets what an empty list gives it.                      *)
(***************************************************************************)
\* the places of the list whose entry carries the positional id of item i
EntriesFor(list, i) ==
  {k \in 1..Len(list) : list[k].t = "object" /\ list[k].id = PositionalId(i)}

\* the largest place of a non-empty set of places
LastOf(places) == CHOOSE k \in places : \A j \in places : j <= k

C23_LastEntryWins ==
  (/\ oPc = "returned"
   /\ oServerResult.error = ""
   /\ oServerResult.body.array) =>
     \A i \in 1..Len(oTweets) :
        LET list == oServerResult.body.list
            places == EntriesFor(list, i)
        IN  oResult[i].verdict =
              IF places = {}
              THEN normalizeVerdict(Undefined).verdict
              ELSE normalizeVerdict(list[LastOf(places)]).verdict

(***************************************************************************)
(* SpecTicks: HEARTBEAT handlers within one day, interleaved at their      *)
(* storage awaits.  SpecQuota: the same with midnight, the dailyReset      *)
(* alarm, the popup and the other handlers that write the storage.         *)
(***************************************************************************)
\* no cache call
CacheIdle ==
  /\ cacheMemory = [loaded |-> FALSE, entries |-> <<>>]
  /\ cacheDirty = FALSE
  /\ storedCache = <<>>
  /\ now = 0
  /\ cacheRet = [op |-> "none", hash |-> <<>>, ret |-> Miss]
  /\ puts = [h \in CacheKeys |-> NoPut]
  /\ putCount = 0
  /\ LoadsIdle

\* the limits the popup is set to, in minutes
PopupMinutes == {1, 2}

\* the storage with a usage record u and a limit of m minutes
StorageWith(u, m) ==
  [dailyUsage |-> u, locked |-> FALSE,
   settings |-> [timeLimitSeconds |-> 60 * m,
                 classificationMode |-> "local",
                 feedReorderingEnabled |-> TRUE],
   dailyStats |-> FreshStats(Today)]

\* no handler has started
HandlersIdle ==
  /\ lockQueue = <<>>
  /\ hbArrived = 0
  /\ hbPc = [h \in Handlers |-> "none"]
  /\ hbUsage = [h \in Handlers |-> NoUsage]
  /\ hbLimit = [h \in Handlers |-> 0]
  /\ hbResp = NoResponse
  /\ lockoutsSent = 0
  /\ closeAlarm = FALSE
  /\ alarmDue = FALSE
  /\ drPc = "idle"
  /\ drToday = Today
  /\ checkResp = NoAnswer

\* the day's first tick is to come: the usage record is today's with 0 s,
\* or still an earlier day's
InitTicks ==
  /\ ObserverIdle
  /\ StatsIdle
  /\ CacheIdle
  /\ OracleIdle
  /\ ContentIdle
  /\ CallIdle
  /\ HandlersIdle
  /\ storage \in
       { StorageWith(u, m) :
           u \in { [date |-> Today, seconds |-> 0],
                   [date |-> Earlier, seconds |-> 50] },
           m \in PopupMinutes }

HbFrame ==
  /\ UNCHANGED <<hbArrived, alarmDue, drPc, drToday, checkResp>>
  /\ UNCHANGED <<cacheVars, notQuota>>

\* sendResponse(r) and the end of fn: the next handler on the chain may run
HbRespond(h, r) ==
  /\ hbResp' = r
  /\ hbUsage' = [hbUsage EXCEPT ![h] = NoUsage]
  /\ hbLimit' = [hbLimit EXCEPT ![h] = 0]
  /\ hbPc' = [hbPc EXCEPT ![h] = "done"]
  /\ lockQueue' = SeqFilter(lockQueue, Range(lockQueue) \ {h})

\* a HEARTBEAT message arrives: its handler chains fn on storageMutex
\* (background.js:657-660)
HbArrive ==
  /\ hbArrived < MaxTicks
  /\ hbArrived' = hbArrived + 1
  /\ hbPc' = [hbPc EXCEPT ![hbArrived + 1] = "getUsage"]
  /\ lockQueue' = Append(lockQueue, hbArrived + 1)
  /\ UNCHANGED <<storage, hbUsage, hbLimit, hbResp, lockoutsSent,
                 closeAlarm, alarmDue, drPc, drToday, checkResp>>
  /\ UNCHANGED <<cacheVars, notQuota>>

\* fn starts: getDailyUsage reads dailyUsage (background.js:661, 323-326)
HbGetUsage(h) ==
  /\ hbPc[h] = "getUsage" /\ MayRun(lockQueue, h)
  /\ LET r == getDailyUsage(storage.dailyUsage, todayString)
     IN  /\ hbUsage' = [hbUsage EXCEPT ![h] = r.usage]
         /\ hbPc' = [hbPc EXCEPT ![h] =
                       IF r.stale THEN "setFresh" ELSE "getLimit"]
  /\ UNCHANGED <<storage, lockQueue, hbLimit, hbResp, lockoutsSent, closeAlarm>>
  /\ HbFrame

\* getDailyUsage writes the fresh record (background.js:327-329)
HbSetFresh(h) ==
  /\ hbPc[h] = "setFresh" /\ MayRun(lockQueue, h)
  /\ storage' = [storage EXCEPT !.dailyUsage = hbUsage[h]]
  /\ hbPc' = [hbPc EXCEPT ![h] = "getLimit"]
  /\ UNCHANGED <<lockQueue, hbUsage, hbLimit, hbResp, lockoutsSent, closeAlarm>>
  /\ HbFrame

\* getTimeLimit reads settings (background.js:662, 335-340)
HbGetLimit(h) ==
  /\ hbPc[h] = "getLimit" /\ MayRun(lockQueue, h)
  /\ hbLimit' = [hbLimit EXCEPT ![h] = getTimeLimit(storage.settings)]
  /\ hbPc' = [hbPc EXCEPT ![h] = "getLocked"]
  /\ UNCHANGED <<storage, lockQueue, hbUsage, hbResp, lockoutsSent, closeAlarm>>
  /\ HbFrame

\* locked is read; a locked handler answers and returns, another one adds
\* the interval to its usage (background.js:665-672)
HbGetLocked(h) ==
  /\ hbPc[h] = "getLocked" /\ MayRun(lockQueue, h)
  /\ IF storage.locked
     THEN HbRespond(h, Response(h, 0, TRUE))
     ELSE /\ hbUsage' = [hbUsage EXCEPT ![h] =
                           [@ EXCEPT !.seconds = @ + HEARTBEAT_SECONDS]]
          /\ hbPc' = [hbPc EXCEPT ![h] = "setUsage"]
          /\ UNCHANGED <<lockQueue, hbLimit, hbResp>>
  /\ UNCHANGED <<storage, lockoutsSent, closeAlarm>>
  /\ HbFrame

\* the usage is written and compared with the limit (background.js:673-683)
HbSetUsage(h) ==
  /\ hbPc[h] = "setUsage" /\ MayRun(lockQueue, h)
  /\ storage' = [storage EXCEPT !.dailyUsage = hbUsage[h]]
  /\ IF LimitReached(hbUsage[h].seconds, hbLimit[h])
     THEN /\ hbPc' = [hbPc EXCEPT ![h] = "lockSet"]
          /\ UNCHANGED <<lockQueue, hbUsage, hbLimit, hbResp>>
     ELSE HbRespond(h, Response(h, Max(0, hbLimit[h] - hbUsage[h].seconds),
                                 FALSE))
  /\ UNCHANGED <<lockoutsSent, closeAlarm>>
  /\ HbFrame

\* enforceLockout writes locked (background.js:598)
HbLockSet(h) ==
  /\ hbPc[h] = "lockSet" /\ MayRun(lockQueue, h)
  /\ storage' = [storage EXCEPT !.locked = TRUE]
  /\ hbPc' = [hbPc EXCEPT ![h] = "broadcast"]
  /\ UNCHANGED <<lockQueue, hbUsage, hbLimit, hbResp, lockoutsSent, closeAlarm>>
  /\ HbFrame

\* enforceLockout sends LOCKOUT to the tabs and sets the alarm; the handler
\* answers (background.js:600-612, 680)
HbBroadcast(h) ==
  /\ hbPc[h] = "broadcast" /\ MayRun(lockQueue, h)
  /\ lockoutsSent' = lockoutsSent + 1
  /\ closeAlarm' = TRUE
  /\ HbRespond(h, Response(h, 0, TRUE))
  /\ UNCHANGED storage
  /\ HbFrame

HbSteps ==
  \/ \E h \in Handlers : HbGetUsage(h)
  \/ \E h \in Handlers : HbSetFresh(h)
  \/ \E h \in Handlers : HbGetLimit(h)
  \/ \E h \in Handlers : HbGetLocked(h)
  \/ \E h \in Handlers : HbSetUsage(h)
  \/ \E h \in Handlers : HbLockSet(h)
  \/ \E h \in Handlers : HbBroadcast(h)

NextTicks ==
  \/ HbArrive
  \/ HbSteps

SpecTicks == InitTicks /\ [][NextTicks]_vars

(***************************************************************************)
(* C7  Quota threshold: with a limit of 60 s and 10 s per tick, ticks 1-5  *)
(* answer locked = false with the time that remains, the 6th tick locks    *)
(* and enforces the lockout, and every later tick answers {0, locked}      *)
(* with the usage unchanged; for any limit the tick that first makes the   *)
(* usage reach the limit is the one that locks.                            *)
(***************************************************************************)
\* the number of the tick that makes the usage reach the limit
CrossingTick == (storage.settings.timeLimitSeconds + 9) \div HEARTBEAT_SECONDS

Returns(h) == hbPc[h] # "done" /\ hbPc'[h] = "done"

C7_Threshold ==
  [][\A h \in Handlers :
       Returns(h) =>
         /\ h < CrossingTick =>
              hbResp' = Response(h, storage.settings.timeLimitSeconds
                                      - HEARTBEAT_SECONDS * h, FALSE)
         /\ h >= CrossingTick =>
              /\ hbResp' = Response(h, 0, TRUE)
              /\ storage'.locked
              /\ lockoutsSent' = 1 /\ closeAlarm'
              /\ storage'.dailyUsage.seconds =
                   HEARTBEAT_SECONDS * CrossingTick]_vars

\* limit 60: the seventh tick answered locked and left the usage at 60 s
C7_Witness ==
  /\ storage.settings.timeLimitSeconds = 60
  /\ hbResp = Response(7, 0, TRUE)
  /\ storage.dailyUsage.seconds = 60
  /\ lockoutsSent = 1

(***************************************************************************)
(* C9  Ticks are serialized by the mutex: at most one handler is between   *)
(* its first storage read and its answer, and when all N handlers that     *)
(* arrived are done the usage is 10 s for every tick up to the crossing    *)
(* one, locked is set iff the crossing tick ran, and the lockout was       *)
(* enforced exactly once then.                                             *)
(***************************************************************************)
InSection(h) ==
  hbPc[h] \in {"setFresh", "getLimit", "getLocked", "setUsage", "lockSet",
               "broadcast"}

C9_Serialized ==
  /\ Cardinality({h \in Handlers : InSection(h)}) <= 1
  /\ (\A h \in 1..hbArrived : hbPc[h] = "done") =>
        /\ storage.dailyUsage.seconds =
             IF hbArrived = 0 THEN storage.dailyUsage.seconds
             ELSE HEARTBEAT_SECONDS *
                    (IF hbArrived < CrossingTick THEN hbArrived ELSE CrossingTick)
        /\ storage.locked = (hbArrived >= CrossingTick)
        /\ lockoutsSent = IF hbArrived >= CrossingTick THEN 1 ELSE 0

\* two handlers wait on the chain while the crossing tick enforces the
\* lockout
C9_Witness ==
  /\ Len(lockQueue) >= 3
  /\ hbPc[Head(lockQueue)] = "broadcast"
  /\ Head(lockQueue) = CrossingTick

(***************************************************************************)
(* SpecFaults: the ticks of SpecTicks, where any storage or tabs call of   *)
(* a critical section may reject.                                          *)
(***************************************************************************)
\* sendResponse(null) of the handler's catch (background.js:813-816)
NullResponse(h) == [t |-> "null", h |-> h, timeRemaining |-> 0, locked |-> FALSE]

\* storageMutex.then(fn) without the rejection handler: a rejected link
\* stays at the head of the chain and no later fn is called
withStorageLock_FulfilledOnly(queue, h, rejected) ==
  IF rejected THEN queue ELSE SeqFilter(queue, Range(queue) \ {h})

\* storageMutex.then(fn, fn) (background.js:314-317): the chain when the
\* link of h settled, fulfilled or rejected; the next fn is called on both
withStorageLock(queue, h, rejected) == SeqFilter(queue, Range(queue) \ {h})

\* an awaited call of the section of h rejects (chrome.storage get or set,
\* chrome.tabs.query): fn rejects, the await of withStorageLock throws and
\* the catch of the handler answers null (background.js:660-684, 813-816)
HbRejects(h) ==
  /\ hbPc[h] \in {"getUsage", "setFresh", "getLimit", "getLocked", "setUsage",
                  "lockSet", "broadcast"}
  /\ MayRun(lockQueue, h)
  /\ hbResp' = NullResponse(h)
  /\ hbUsage' = [hbUsage EXCEPT ![h] = NoUsage]
  /\ hbLimit' = [hbLimit EXCEPT ![h] = 0]
  /\ hbPc' = [hbPc EXCEPT ![h] = "failed"]
  /\ lockQueue' = withStorageLock(lockQueue, h, TRUE)
  /\ UNCHANGED <<storage, lockoutsSent, closeAlarm>>
  /\ HbFrame

NextFaults ==
  \/ HbArrive
  \/ HbSteps
  \/ \E h \in Handlers : HbRejects(h)

SpecFaults == InitTicks /\ [][NextFaults]_vars

\* the handlers that arrived and have not answered, in arrival order
RECURSIVE Waiting(_)
Waiting(n) ==
  IF n = 0 THEN <<>>
  ELSE IF hbPc[n] \in {"done", "failed"} THEN Waiting(n - 1)
       ELSE Append(Waiting(n - 1), n)

(***************************************************************************)
(* C40  The mutex survives a failing critical section: also when sections  *)
(* reject, at most one handler is in its section, the chain holds exactly  *)
(* the handlers that have not answered, in their arrival order (the lock   *)
(* of a rejected section is released and nobody behind it is skipped), a   *)
(* step of the handler at its head is enabled whenever one waits, and a    *)
(* section starts only when every earlier tick has answered or failed.     *)
(***************************************************************************)
C40_SurvivesRejection ==
  /\ [](/\ Cardinality({h \in Handlers : InSection(h)}) <= 1
        /\ lockQueue = Waiting(hbArrived)
        /\ lockQueue # <<>> => ENABLED HbSteps)
  /\ [][\A h \in Handlers :
          (hbPc[h] = "getUsage" /\ hbPc'[h] # "getUsage") =>
             \A g \in 1..(h - 1) : hbPc[g] \in {"done", "failed"}]_vars

\* a section rejected in the middle and the tick behind it has answered
\* with the time that remains, while a third one waits
C40_Witness ==
  \E h \in Handlers :
    /\ h + 2 <= hbArrived
    /\ hbPc[h] = "failed"
    /\ hbPc[h + 1] = "done"
    /\ hbResp = Response(h + 1, hbResp.timeRemaining, FALSE)
    /\ storage.dailyUsage.seconds > 0
    /\ lockQueue # <<>> /\ Head(lockQueue) = h + 2

(***************************************************************************)
(* SpecQuota                                                               *)
(***************************************************************************)
\* the state after four ticks of the day
InitQuota ==
  /\ ObserverIdle
  /\ StatsIdle
  /\ CacheIdle
  /\ OracleIdle
  /\ ContentIdle
  /\ CallIdle
  /\ HandlersIdle
  /\ storage \in { StorageWith([date |-> Today, seconds |-> 40], m) :
                    m \in PopupMinutes }

QuotaFrame ==
  /\ UNCHANGED <<lockQueue, hbArrived, hbPc, hbLimit, hbResp, lockoutsSent>>
  /\ UNCHANGED notQuota

\* midnight: every date taken so far is an earlier day's, and the
\* dailyReset alarm is due (background.js:899-903)
DayPasses ==
  /\ storage' = [storage EXCEPT !.dailyUsage.date = Earlier,
                                !.dailyStats.date = Earlier]
  /\ hbUsage' = [h \in Handlers |-> [hbUsage[h] EXCEPT !.date = Earlier]]
  /\ drToday' = IF drPc = "idle" THEN drToday ELSE Earlier
  /\ alarmDue' = TRUE
  /\ UNCHANGED <<closeAlarm, drPc, checkResp>>
  /\ UNCHANGED cacheVars
  /\ QuotaFrame

\* the dailyReset alarm fires: the usage is reset (background.js:839-845)
DrSetUsage ==
  /\ alarmDue /\ drPc = "idle"
  /\ alarmDue' = FALSE
  /\ drToday' = todayString
  /\ storage' = [storage EXCEPT !.dailyUsage =
                                  [date |-> todayString, seconds |-> 0]]
  /\ drPc' = "setLocked"
  /\ UNCHANGED <<hbUsage, closeAlarm, checkResp>>
  /\ UNCHANGED cacheVars
  /\ QuotaFrame

\* background.js:848
DrSetLocked ==
  /\ drPc = "setLocked"
  /\ storage' = [storage EXCEPT !.locked = FALSE]
  /\ drPc' = "clean"
  /\ UNCHANGED <<hbUsage, closeAlarm, alarmDue, drToday, checkResp>>
  /\ UNCHANGED cacheVars
  /\ QuotaFrame

\* background.js:851
DrClean ==
  LET loaded == loadCacheIntoMemory(cacheMemory, storedCache)
      swept == SweepExpired(loaded, now)
      dirty == cacheDirty \/ swept # loaded
  IN  /\ drPc = "clean"
      /\ cacheMemory' = [loaded |-> TRUE, entries |-> swept]
      /\ storedCache' = IF dirty THEN swept ELSE storedCache
      /\ cacheDirty' = FALSE
      /\ drPc' = "setStats"
      /\ UNCHANGED <<now, cacheRet, puts, putCount>>
      /\ UNCHANGED <<storage, hbUsage, closeAlarm, alarmDue, drToday, checkResp>>
      /\ QuotaFrame

\* background.js:854-856
DrSetStats ==
  /\ drPc = "setStats"
  /\ storage' = [storage EXCEPT !.dailyStats = FreshStats(drToday)]
  /\ drPc' = "idle"
  /\ drToday' = Today
  /\ UNCHANGED <<hbUsage, closeAlarm, alarmDue, checkResp>>
  /\ UNCHANGED cacheVars
  /\ QuotaFrame

StorageWrite(st) ==
  /\ storage' = st
  /\ UNCHANGED <<hbUsage, closeAlarm, alarmDue, drPc, drToday, checkResp>>
  /\ UNCHANGED cacheVars
  /\ QuotaFrame

\* the popup saves a time limit (popup.js:73-88)
SaveTimeLimit(minutes) == StorageWrite(saveTimeLimit(storage, minutes))

\* SET_MODE (background.js:793-808)
SetMode(mode) == StorageWrite(setMode(storage, mode))

\* RESET_STATS (background.js:777-784)
ResetStats == StorageWrite([storage EXCEPT !.dailyStats = FreshStats(todayString)])

\* what CLASSIFY_BATCH writes to storage: the counts of its verdicts
\* (background.js:731-749)
ClassifyStats(filtered, shown) ==
  /\ storage.dailyStats.analyzed + filtered + shown <= MaxStats
  /\ StorageWrite(updateDailyStats(storage, todayString, filtered, shown,
                                   0, 0))

\* CHECK_LOCKOUT (background.js:635-639)
CheckLockout ==
  /\ checkResp' = LockoutAnswer(storage.locked)
  /\ UNCHANGED <<storage, hbUsage, closeAlarm, alarmDue, drPc, drToday>>
  /\ UNCHANGED cacheVars
  /\ QuotaFrame

NextQuota ==
  \/ hbArrived < MaxQuotaTicks /\ HbArrive
  \/ HbSteps
  \/ DayPasses
  \/ DrSetUsage
  \/ DrSetLocked
  \/ DrClean
  \/ DrSetStats
  \/ \E m \in PopupMinutes : SaveTimeLimit(m)
  \/ \E mode \in {"local", "api"} : SetMode(mode)
  \/ ResetStats
  \/ ClassifyStats(1, 1)
  \/ CheckLockout

SpecQuota == InitQuota /\ [][NextQuota]_vars

(***************************************************************************)
(* C8  locked is monotonic within a day: the only step that clears it is   *)
(* the dailyReset handler's write; no tick, classification count, stats    *)
(* reset, mode change or limit change does; and while it is set every      *)
(* tick that answers and every lockout check reports locked.               *)
(***************************************************************************)
C8_LockedMonotonic ==
  [][/\ (storage.locked /\ ~ storage'.locked) => DrSetLocked
     /\ \A h \in Handlers :
          (storage.locked /\ Returns(h)) => hbResp' = Response(h, 0, TRUE)
     /\ (storage.locked /\ CheckLockout) => checkResp'.locked]_vars

\* locked at 60 s, the limit then raised to 120 s: a tick that read the new
\* limit and a lockout check both reported locked, on the same day
C8_Witness ==
  /\ storage.locked
  /\ storage.dailyUsage = [date |-> Today, seconds |-> 60]
  /\ storage.settings.timeLimitSeconds = 120
  /\ checkResp = LockoutAnswer(TRUE)
  /\ hbResp = Response(3, 0, TRUE)

(***************************************************************************)
(* C20  The daily rollover is atomic for its observers: once the           *)
(* dailyReset handler and every HEARTBEAT handler that ran beside it have  *)
(* returned, locked is set only if the seconds used on the new day reach   *)
(* the limit (every limit is at least the popup's smallest one).           *)
(***************************************************************************)
\* the dailyReset alarm is served and no handler is between its first read
\* and its answer
RolloverSettled ==
  /\ ~ alarmDue
  /\ drPc = "idle"
  /\ \A h \in Handlers : hbPc[h] \in {"none", "done"}

\* what getDailyUsage gives the next tick
UsedToday == getDailyUsage(storage.dailyUsage, todayString).usage.seconds

\* the smallest limit the popup saves
SmallestLimit == saveTimeLimit(storage, 0).settings.timeLimitSeconds

C20_RolloverAtomic ==
  (RolloverSettled /\ storage.locked) => LimitReached(UsedToday, SmallestLimit)

(***************************************************************************)
(* C21  A tick rolls the whole quota state over: a tick that finds the     *)
(* stored date different from the current day resets the usage and locked  *)
(* before it checks the lock, so while the dailyReset alarm is still to be *)
(* served a tick that has just written the new day's fresh usage record    *)
(* does not answer locked.                                                 *)
(***************************************************************************)
\* the alarm of the last midnight is due and its handler has not started
AlarmNotRun == alarmDue /\ drPc = "idle"

C21_TickRollsOver ==
  [][\A h \in Handlers :
       (/\ Returns(h)
        /\ AlarmNotRun
        /\ storage.dailyUsage = getDailyUsage(NoUsage, todayString).usage) =>
          ~ hbResp'.locked]_vars

(***************************************************************************)
(* SpecStats: the updateDailyStats calls of CLASSIFY_BATCH handlers within *)
(* one day, interleaved at their storage awaits (background.js:345-366,    *)
(* 750); the handler makes the call outside withStorageLock                *)
(***************************************************************************)
\* the counts of the verdicts of a batch, as the handler sums them
\* (background.js:731-749): one filtered; one nourished; one filtered, one
\* shown and one distilled
BatchCounts == {Counts(1, 0, 0, 0), Counts(0, 1, 1, 0), Counts(1, 2, 0, 1)}

\* getDailyStats (background.js:345-357) once the read returned:
\* [stale, stats]
getDailyStats(dailyStats, day) ==
  IF dailyStats.date # day
  THEN [stale |-> TRUE, stats |-> FreshStats(day)]
  ELSE [stale |-> FALSE, stats |-> dailyStats]

\* the additions of updateDailyStats (background.js:360-364)
AddCounts(stats, c) ==
  [date |-> stats.date,
   filtered |-> stats.filtered + c.filtered,
   shown |-> stats.shown + c.shown,
   analyzed |-> stats.analyzed + c.filtered + c.shown,
   nourished |-> stats.nourished + c.nourished,
   distilled |-> stats.distilled + c.distilled]

\* the record of the day before, or today's empty one
InitStats ==
  /\ ObserverIdle
  /\ StatsIdle
  /\ CacheIdle
  /\ OracleIdle
  /\ ContentIdle
  /\ CallIdle
  /\ HandlersIdle
  /\ storage \in
       { [StorageWith([date |-> Today, seconds |-> 0], 1)
            EXCEPT !.dailyStats = st] :
           st \in {FreshStats(Today),
                   [FreshStats(Earlier) EXCEPT !.filtered = 1,
                                               !.analyzed = 1]} }

StatsFrame ==
  /\ UNCHANGED <<lockQueue, hbArrived, hbPc, hbUsage, hbLimit, hbResp,
                 lockoutsSent, closeAlarm, alarmDue, drPc, drToday,
                 checkResp>>
  /\ UNCHANGED notStats

\* handler h has its verdicts and calls updateDailyStats, which calls
\* getDailyStats, which awaits chrome.storage.local.get (background.js:750,
\* 360, 346)
StatsCalled(h, c) ==
  /\ statPc[h] = "none"
  /\ statPc' = [statPc EXCEPT ![h] = "get"]
  /\ statCounts' = [statCounts EXCEPT ![h] = c]
  /\ UNCHANGED <<storage, statHeld>>
  /\ StatsFrame

\* the read of h returns (background.js:346-356): a record of another day
\* is replaced, the write awaited
StatsRead(h) ==
  LET r == getDailyStats(storage.dailyStats, todayString)
  IN  /\ statPc[h] = "get"
      /\ statHeld' = [statHeld EXCEPT ![h] = r.stats]
      /\ statPc' = [statPc EXCEPT ![h] = IF r.stale THEN "fresh" ELSE "set"]
      /\ storage' = IF r.stale THEN [storage EXCEPT !.dailyStats = r.stats]
                    ELSE storage
      /\ UNCHANGED statCounts
      /\ StatsFrame

\* the write of the fresh record has settled; updateDailyStats adds the
\* counts and writes (background.js:360-365)
StatsFreshSettled(h) ==
  /\ statPc[h] = "fresh"
  /\ statPc' = [statPc EXCEPT ![h] = "set"]
  /\ UNCHANGED <<storage, statHeld, statCounts>>
  /\ StatsFrame

\* updateDailyStats of h adds its counts to the record it holds and writes
\* it (background.js:360-365); the handler answers
StatsWritten(h) ==
  /\ statPc[h] = "set"
  /\ storage' = [storage EXCEPT
                   !.dailyStats = AddCounts(statHeld[h], statCounts[h])]
  /\ statPc' = [statPc EXCEPT ![h] = "done"]
  /\ UNCHANGED <<statHeld, statCounts>>
  /\ StatsFrame

NextStats ==
  \/ \E h \in StatHandlers, c \in BatchCounts : StatsCalled(h, c)
  \/ \E h \in StatHandlers : StatsRead(h)
  \/ \E h \in StatHandlers : StatsFreshSettled(h)
  \/ \E h \in StatHandlers : StatsWritten(h)

SpecStats == InitStats /\ [][NextStats]_vars

(***************************************************************************)
(* C39  Daily statistics lose no update: when the CLASSIFY_BATCH handlers  *)
(* that overlapped at their storage awaits have all completed, the stored  *)
(* counters of the day are the sums over the verdicts they returned, and   *)
(* analyzed = filtered + shown in every stored record.                     *)
(***************************************************************************)
RECURSIVE SumOver(_, _)
SumOver(hs, field) ==
  IF hs = {} THEN 0
  ELSE LET h == CHOOSE x \in hs : TRUE
       IN  statCounts[h][field] + SumOver(hs \ {h}, field)

Completed == {h \in StatHandlers : statPc[h] = "done"}

C39_NoLostUpdate ==
  /\ storage.dailyStats.analyzed =
       storage.dailyStats.filtered + storage.dailyStats.shown
  /\ (Completed # {} /\ \A h \in StatHandlers : statPc[h] \in {"none", "done"}) =>
        \A f \in {"filtered", "shown", "nourished", "distilled"} :
           storage.dailyStats[f] = SumOver(Completed, f)

(***************************************************************************)
(* SpecHash: contentHash of the background and of the content script       *)
(***************************************************************************)
\* The content script's copy (part_001:40-47), operation by operation on
\* the two 16-bit halves <<high, low>> of the 32-bit value.
\* hash << 5
csShiftLeft5(h) ==
  <<(32 * h[1] + ((32 * h[2]) \div 65536)) % 65536, (32 * h[2]) % 65536>>

\* a - b on 32 bits
csMinus(a, b) ==
  LET borrow == IF a[2] < b[2] THEN 1 ELSE 0
  IN  <<(a[1] - b[1] - borrow + 65536) % 65536,
        (a[2] - b[2] + 65536) % 65536>>

\* (a + c) | 0, c a code unit
csPlus(a, c) ==
  <<(a[1] + ((a[2] + c) \div 65536)) % 65536, (a[2] + c) % 65536>>

RECURSIVE csHashLoop(_, _, _)
csHashLoop(str, i, hash) ==
  IF i > Len(str) THEN hash
  ELSE csHashLoop(str, i + 1,
                  csPlus(csMinus(csShiftLeft5(hash), hash), str[i]))

csContentHash(str) == ToHex(csHashLoop(str, 1, <<0, 5381>>))

\* the code units of the texts hashed in SpecHash: NUL, "a", U+00FF, U+FFFF
HashUnits == {0, 97, 255, 65535}
HashTexts == UNION {[1..n -> HashUnits] : n \in 0..MaxText}

NoDigits == <<>>

InitHash ==
  /\ ObserverIdle
  /\ StatsIdle
  /\ CacheIdle
  /\ OracleIdle
  /\ QuotaIdle
  /\ ContentIdle
  /\ fnCall \in {[fn |-> "contentHash", text |-> t] : t \in HashTexts}
  /\ fnRet = [t |-> "hashes", background |-> NoDigits, content |-> NoDigits]

\* the background computes the fingerprint
BackgroundHashes ==
  /\ fnCall.fn = "contentHash"
  /\ fnRet.background = NoDigits
  /\ fnRet' = [fnRet EXCEPT !.background = contentHash(fnCall.text)]
  /\ UNCHANGED fnCall
  /\ UNCHANGED notCall

\* the content script computes the fingerprint
ContentScriptHashes ==
  /\ fnCall.fn = "contentHash"
  /\ fnRet.content = NoDigits
  /\ fnRet' = [fnRet EXCEPT !.content = csContentHash(fnCall.text)]
  /\ UNCHANGED fnCall
  /\ UNCHANGED notCall

NextHash == BackgroundHashes \/ ContentScriptHashes

SpecHash == InitHash /\ [][NextHash]_vars

\* h <- (31 * h + c) mod 2^32 on four bytes, least significant first
Fold31Step(b, c) ==
  LET t0 == 31 * b[1] + c
      t1 == 31 * b[2] + (t0 \div 256)
      t2 == 31 * b[3] + (t1 \div 256)
      t3 == 31 * b[4] + (t2 \div 256)
  IN  <<t0 % 256, t1 % 256, t2 % 256, t3 % 256>>

RECURSIVE Fold31(_, _, _)
Fold31(str, i, b) ==
  IF i > Len(str) THEN b ELSE Fold31(str, i + 1, Fold31Step(b, str[i]))

\* the hexadecimal digits of the four bytes, without leading zeros
RECURSIVE DropZeros(_)
DropZeros(d) == IF Len(d) > 1 /\ d[1] = 0 THEN DropZeros(Tail(d)) ELSE d
HexOf(b) ==
  DropZeros(<<b[4] \div 16, b[4] % 16, b[3] \div 16, b[3] % 16,
              b[2] \div 16, b[2] % 16, b[1] \div 16, b[1] % 16>>)

\* 5381 = 21 * 256 + 5
Fold31Hex(str) == HexOf(Fold31(str, 1, <<5, 21, 0, 0>>))

(***************************************************************************)
(* C17  The fingerprint depends only on the text: each copy of contentHash *)
(* returns the hexadecimal rendering of the fold h <- (31 * h + c) mod     *)
(* 2^32 from 5381 over the text, so the background's and the content       *)
(* script's fingerprints of one text are equal.                            *)
(***************************************************************************)
C17_SameFingerprint ==
  fnCall.fn = "contentHash" =>
    /\ fnRet.background # NoDigits =>
          fnRet.background = Fold31Hex(fnCall.text)
    /\ fnRet.content # NoDigits =>
          fnRet.content = Fold31Hex(fnCall.text)
    /\ (fnRet.background # NoDigits /\ fnRet.content # NoDigits) =>
          fnRet.background = fnRet.content

\* both copies have hashed a text whose fold has wrapped past 2^32 and has
\* its top bit set
C17_Witness ==
  /\ fnCall.fn = "contentHash"
  /\ Len(fnCall.text) = MaxText
  /\ fnRet.background # NoDigits
  /\ fnRet.background = fnRet.content
  /\ Len(fnRet.background) = 8
  /\ fnRet.background[1] >= 8

(***************************************************************************)
(* SpecReorder: reorderBatch on the cells of one parent                    *)
(***************************************************************************)
\* part_001:21
VERDICT_PRIORITY(verdict) ==
  IF verdict = "nourish" THEN 0
  ELSE IF verdict = "allow" THEN 1
  ELSE IF verdict = "distill" THEN 2
  ELSE IF verdict = "block" THEN 3
  ELSE 4

\* no node (null)
NoNode == -1

\* children.indexOf(cell), from 1
IndexOf(children, cell) ==
  CHOOSE i \in 1..Len(children) : children[i] = cell

\* node.nextSibling
NextSibling(children, node) ==
  IF IndexOf(children, node) = Len(children) THEN NoNode
  ELSE children[IndexOf(children, node) + 1]

Without(children, node) == SeqFilter(children, Range(children) \ {node})

\* parent.insertBefore(node, ref): a node inserted before itself stays
\* where it is, a null ref appends
insertBefore(children, node, ref) ==
  LET child == IF ref = node THEN NextSibling(children, node) ELSE ref
      rest == Without(children, node)
  IN  IF child = NoNode THEN Append(rest, node)
      ELSE SubSeq(rest, 1, IndexOf(rest, child) - 1) \o <<node>>
             \o SubSeq(rest, IndexOf(rest, child), Len(rest))

\* entries.sort((a, b) => a.priority - b.priority): a stable sort
RECURSIVE InsertByPriority(_, _)
InsertByPriority(sorted, e) ==
  IF sorted = <<>> THEN <<e>>
  ELSE IF e.priority < Head(sorted).priority THEN <<e>> \o sorted
       ELSE <<Head(sorted)>> \o InsertByPriority(Tail(sorted), e)

RECURSIVE SortByPriority(_)
SortByPriority(entries) ==
  IF entries = <<>> THEN <<>>
  ELSE InsertByPriority(SortByPriority(SubSeq(entries, 1, Len(entries) - 1)),
                        entries[Len(entries)])

\* the insertion loop (part_001:481-484)
RECURSIVE InsertAll(_, _, _, _)
InsertAll(children, entries, k, referenceNode) ==
  IF k > Len(entries) THEN children
  ELSE LET moved == insertBefore(children, entries[k].cell, referenceNode)
       IN  InsertAll(moved, entries, k + 1,
                     NextSibling(moved, entries[k].cell))

\* reorderBatch (part_001:423-496) for the Map batchVerdictInfo, given as
\* the sequence of its [cell, verdict] in insertion order, on the children
\* of the cells' parent: [children, paused]
reorderBatch(children, batchVerdictInfo, feedReorderingEnabled, onFeed) ==
  LET entries == [k \in 1..Len(batchVerdictInfo) |->
                    [cell |-> batchVerdictInfo[k].cell,
                     priority |-> VERDICT_PRIORITY(batchVerdictInfo[k].verdict)]]
      sorted == SortByPriority(entries)
      currentOrder == [k \in 1..Len(sorted) |-> IndexOf(children, sorted[k].cell)]
      isSorted == \A k \in 2..Len(sorted) : currentOrder[k] >= currentOrder[k - 1]
      earliestIndex == CHOOSE i \in Range(currentOrder) :
                          \A j \in Range(currentOrder) : i <= j
  IN  IF ~ feedReorderingEnabled \/ ~ onFeed \/ Len(entries) < 2 \/ isSorted
      THEN [children |-> children, paused |-> FALSE]
      ELSE [children |-> InsertAll(children, sorted, 1, children[earliestIndex]),
            paused |-> TRUE]

\* the cells of the batch, in document order; cell 0 is a cell that is not
\* of the batch
BatchCells == <<1, 2, 3>>
ReorderChildren == { <<1, 2, 3>>, <<1, 0, 2, 3>> }
ReorderVerdicts == {"nourish", "allow", "distill", "block"}

\* what became of a tweet of the batch: no verdict applied (its element
\* was gone), or a verdict that the background had in its cache or got from
\* the oracle
ItemFates ==
  { [verdict |-> "none", cached |-> FALSE] }
    \cup [verdict : ReorderVerdicts, cached : BOOLEAN]

\* batchVerdictInfo for tweets queued in document order: the verdicts are
\* applied in the order of the response, the background's cached results
\* first and the oracle's after them (background.js:729, part_001:328-363)
VerdictInfoOf(fates) ==
  LET infos == [k \in 1..Len(BatchCells) |->
                  [cell |-> BatchCells[k], verdict |-> fates[k].verdict]]
  IN  SeqFilter(infos, {i \in Range(infos) :
                          fates[i.cell].verdict # "none" /\ fates[i.cell].cached})
        \o SeqFilter(infos, {i \in Range(infos) :
                          fates[i.cell].verdict # "none" /\ ~ fates[i.cell].cached})

ReorderCalls ==
  { [fn |-> "reorderBatch", children |-> ch, fates |-> f,
     enabled |-> fl[1], onFeed |-> fl[2]] :
      ch \in ReorderChildren, f \in [1..Len(BatchCells) -> ItemFates],
      fl \in {<<TRUE, TRUE>>, <<FALSE, TRUE>>, <<TRUE, FALSE>>} }

InitReorder ==
  /\ ObserverIdle
  /\ StatsIdle
  /\ CacheIdle
  /\ OracleIdle
  /\ QuotaIdle
  /\ ContentIdle
  /\ fnCall \in ReorderCalls
  /\ fnRet = NoRet

ReorderBatchCall ==
  /\ fnCall.fn = "reorderBatch"
  /\ fnRet = NoRet
  /\ fnRet' = [t |-> "ret",
               value |-> reorderBatch(fnCall.children,
                                      VerdictInfoOf(fnCall.fates),
                                      fnCall.enabled, fnCall.onFeed)]
  /\ UNCHANGED fnCall
  /\ UNCHANGED notCall

NextReorder == ReorderBatchCall

SpecReorder == InitReorder /\ [][NextReorder]_vars

\* the cells of the batch that have a verdict, and their priorities
Resolved == {c \in Range(BatchCells) : fnCall.fates[c].verdict # "none"}
PriorityOf(c) == VERDICT_PRIORITY(fnCall.fates[c].verdict)
\* cell a stands before cell b
Before(children, a, b) == IndexOf(children, a) < IndexOf(children, b)
\* the document order of the resolved cells agrees with their priorities
InPriorityOrder(children) ==
  \A a, b \in Resolved :
     Before(children, a, b) => PriorityOf(a) <= PriorityOf(b)

(***************************************************************************)
(* C14  Reorder result: when reorderBatch moves the cells of a resolved    *)
(* batch, the cells end in non-decreasing priority, and cells of equal     *)
(* priority keep their original relative document order.                   *)
(***************************************************************************)
C14_StableReorder ==
  (fnCall.fn = "reorderBatch" /\ fnRet # NoRet /\ fnRet.value.paused) =>
     /\ InPriorityOrder(fnRet.value.children)
     /\ \A a, b \in Resolved :
           (PriorityOf(a) = PriorityOf(b) /\ Before(fnCall.children, a, b))
              => Before(fnRet.value.children, a, b)

(***************************************************************************)
(* C15  Reorder is a no-op on an ordered batch: if the document order of   *)
(* the batch's cells already agrees with the priority order (several cells *)
(* may have the same priority), reorderBatch moves no node and does not    *)
(* pause the observer.                                                     *)
(***************************************************************************)
C15_NoOpWhenOrdered ==
  (fnCall.fn = "reorderBatch" /\ fnRet # NoRet
     /\ InPriorityOrder(fnCall.children)) =>
        /\ fnRet.value.children = fnCall.children
        /\ ~ fnRet.value.paused

(***************************************************************************)
(* SpecObserver: the MutationObserver of the content script and the        *)
(* reorders of flushBatch on the page's event loop.  A task (the host's    *)
(* script, the delivery of a response) starts when no microtask is left;   *)
(* the microtasks run oldest first.                                        *)
(***************************************************************************)
\* a node is added under document.body: the record is queued, and the
\* observer's callback is queued as a microtask unless it is queued already
QueueRecord(records, queue, by, node) ==
  [records |-> Append(records, [by |-> by, node |-> node]),
   queue |-> IF "notify" \in Range(queue) THEN queue
             ELSE Append(queue, "notify")]

\* part_001:615-617
pauseObserver(depth) == depth + 1

\* resumeObserver lowering the depth before it returns
resumeObserver_AtOnce(depth, queue) ==
  [depth |-> IF depth > 0 THEN depth - 1 ELSE depth, queue |-> queue]

\* resumeObserver (part_001:619-623): [depth, queue] when it returns
resumeObserver(depth, queue) ==
  [depth |-> depth, queue |-> Append(queue, "resume")]

\* the callback queued by resumeObserver (part_001:620-622)
resumeCallback(depth) == IF depth > 0 THEN depth - 1 ELSE depth

\* the observer's callback (part_001:592-597): the records whose added node
\* it gives to scanForTweets
observerCallback(depth, records) ==
  IF depth > 0 THEN {} ELSE Range(records)

\* the insertions of reorderBatch (part_001:481-484) as the observer records
\* them: one record for every cell, in the sorted order
RECURSIVE RecordMoves(_, _, _, _)
RecordMoves(records, queue, cells, k) ==
  IF k > Len(cells) THEN [records |-> records, queue |-> queue]
  ELSE LET q == QueueRecord(records, queue, "reorder", cells[k])
       IN  RecordMoves(q.records, q.queue, cells, k + 1)

\* the cells reorderBatch inserts: the cells of the batch with a verdict, by
\* priority
MovedCells(info) ==
  LET sorted == SortByPriority(
                  [k \in 1..Len(info) |->
                     [cell |-> info[k].cell,
                      priority |-> VERDICT_PRIORITY(info[k].verdict)]])
  IN  [k \in 1..Len(sorted) |-> sorted[k].cell]

InitObserver ==
  /\ StatsIdle
  /\ CacheIdle
  /\ OracleIdle
  /\ QuotaIdle
  /\ ContentIdle
  /\ CallIdle
  /\ observerPauseDepth = 0
  /\ microtasks = <<>>
  /\ mutationRecords = <<>>
  /\ scanned = {}
  /\ timeline \in ReorderChildren
  /\ hostAdds = 0
  /\ responses = 0

\* a task of the host page adds a node under document.body
HostAppends(node) ==
  /\ microtasks = <<>>
  /\ hostAdds < MaxHostAdds
  /\ hostAdds' = hostAdds + 1
  /\ LET q == QueueRecord(mutationRecords, microtasks, "host", node)
     IN  /\ mutationRecords' = q.records
         /\ microtasks' = q.queue
  /\ UNCHANGED <<observerPauseDepth, scanned, timeline, responses>>
  /\ UNCHANGED notObserver

\* a task delivers the response of a CLASSIFY_BATCH message: the promise of
\* sendMessage resolves (part_001:54-70) and the flushBatch call that awaits
\* it is queued to continue
ResponseArrives ==
  /\ microtasks = <<>>
  /\ responses < MaxResponses
  /\ responses' = responses + 1
  /\ microtasks' = <<"continue">>
  /\ UNCHANGED <<observerPauseDepth, mutationRecords, scanned, timeline,
                 hostAdds>>
  /\ UNCHANGED notObserver

\* flushBatch continues after its await and calls reorderBatch
\* (part_001:371, 423-496) for the verdicts it has applied
FlushBatchReorders(fates, enabled, onFeed) ==
  LET info == VerdictInfoOf(fates)
      r == reorderBatch(timeline, info, enabled, onFeed)
      moved == RecordMoves(mutationRecords, Tail(microtasks),
                           MovedCells(info), 1)
      resumed == resumeObserver(pauseObserver(observerPauseDepth),
                                moved.queue)
  IN  /\ microtasks # <<>> /\ Head(microtasks) = "continue"
      /\ timeline' = r.children
      /\ IF r.paused
         THEN /\ mutationRecords' = moved.records
              /\ observerPauseDepth' = resumed.depth
              /\ microtasks' = resumed.queue
         ELSE /\ microtasks' = Tail(microtasks)
              /\ UNCHANGED <<mutationRecords, observerPauseDepth>>
      /\ UNCHANGED <<scanned, hostAdds, responses>>
      /\ UNCHANGED notObserver

\* the observer's callback runs with the records queued so far
ObserverNotified ==
  /\ microtasks # <<>> /\ Head(microtasks) = "notify"
  /\ microtasks' = Tail(microtasks)
  /\ mutationRecords' = <<>>
  /\ scanned' = scanned \cup observerCallback(observerPauseDepth,
                                              mutationRecords)
  /\ UNCHANGED <<observerPauseDepth, timeline, hostAdds, responses>>
  /\ UNCHANGED notObserver

\* the callback queued by resumeObserver runs
ResumeRuns ==
  /\ microtasks # <<>> /\ Head(microtasks) = "resume"
  /\ microtasks' = Tail(microtasks)
  /\ observerPauseDepth' = resumeCallback(observerPauseDepth)
  /\ UNCHANGED <<mutationRecords, scanned, timeline, hostAdds, responses>>
  /\ UNCHANGED notObserver

NextObserver ==
  \/ \E n \in {0, 4} : HostAppends(n)
  \/ ResponseArrives
  \/ \E f \in [1..Len(BatchCells) -> ItemFates], fl \in BOOLEAN \X BOOLEAN :
        FlushBatchReorders(f, fl[1], fl[2])
  \/ ObserverNotified
  \/ ResumeRuns

SpecObserver == InitObserver /\ [][NextObserver]_vars

(***************************************************************************)
(* C33  Observation pauses nest safely: observerPauseDepth is never        *)
(* negative; every reorder raises it by one and queues the callback that   *)
(* lowers it by one, so it equals the number of those callbacks still      *)
(* queued and is zero once the microtasks have drained; and no node that a *)
(* reorder inserted is given to scanForTweets as a newly added node.       *)
(***************************************************************************)
PendingResumes ==
  Cardinality({k \in 1..Len(microtasks) : microtasks[k] = "resume"})

PauseBalanced ==
  /\ observerPauseDepth >= 0
  /\ observerPauseDepth = PendingResumes
  /\ microtasks = <<>> => observerPauseDepth = 0
  /\ \A r \in scanned : r.by # "reorder"

C33_PausesNest ==
  /\ []PauseBalanced
  /\ [][/\ timeline' # timeline =>
              /\ observerPauseDepth' = observerPauseDepth + 1
              /\ microtasks'[Len(microtasks')] = "resume"
        /\ ResumeRuns => observerPauseDepth' = observerPauseDepth - 1]_vars

\* a reorder has moved cells, the observer's callback has run and scanned
\* none of them, the depth is back at zero, and a node the host added
\* afterwards has been scanned
C33_Witness ==
  /\ timeline \notin ReorderChildren
  /\ microtasks = <<>>
  /\ observerPauseDepth = 0
  /\ mutationRecords = <<>>
  /\ scanned # {}

(***************************************************************************)
(* SpecNormalize: normalizeVerdict on its own                              *)
(***************************************************************************)
UpperChar(c) == IF c >= 97 /\ c <= 122 THEN c - 32 ELSE c
\* the spellings of a word: as listed, in capitals, capitalised
Spellings(w) ==
  { w, [i \in 1..Len(w) |-> UpperChar(w[i])],
    [i \in 1..Len(w) |-> IF i = 1 THEN UpperChar(w[i]) ELSE w[i]] }

\* labels outside the three lists: "filter", "block", "", " show", "shows"
OtherLabels ==
  { <<102,105,108,116,101,114>>, <<98,108,111,99,107>>, <<>>,
    <<32,115,104,111,119>>, <<115,104,111,119,115>> }

ListedLabels == NOURISH_VERDICTS \cup SHOW_VERDICTS \cup DISTILL_VERDICTS

\* the calls of normalizeVerdict: [fn, arg, word], word being the label of
\* the entry as the lists spell it, or <<>> when the entry has no label
NormalizeCalls ==
  UNION { { [fn |-> "normalizeVerdict", arg |-> RawEntry(0, Str(l), r, d),
             word |-> w] :
             l \in Spellings(w), r \in {"", "r"}, d \in {<<>>, DistilledText} } :
          w \in ListedLabels \cup OtherLabels }
  \cup { [fn |-> "normalizeVerdict", arg |-> a, word |-> <<>>] :
            a \in {Undefined, Null, RawEntry(0, NotAString, "r", <<>>)} }

InitNormalize ==
  /\ ObserverIdle
  /\ StatsIdle
  /\ CacheIdle
  /\ OracleIdle
  /\ QuotaIdle
  /\ ContentIdle
  /\ fnCall \in NormalizeCalls
  /\ fnRet = NoRet

NormalizeVerdictCall ==
  /\ fnCall.fn = "normalizeVerdict"
  /\ fnRet = NoRet
  /\ fnRet' = [t |-> "ret", value |-> normalizeVerdict(fnCall.arg)]
  /\ UNCHANGED fnCall
  /\ UNCHANGED notCall

NextNormalize == NormalizeVerdictCall

SpecNormalize == InitNormalize /\ [][NextNormalize]_vars

(***************************************************************************)
(* C12  Verdict normalization is a total map into {nourish, allow,         *)
(* distill, block}: a label that is, whatever its case, one of the words   *)
(* of NOURISH_VERDICTS gives nourish, of SHOW_VERDICTS gives allow (show), *)
(* of DISTILL_VERDICTS gives distill, and every other input (missing       *)
(* entry, label that is not a string, any other label) gives block         *)
(* (filter).                                                               *)
(***************************************************************************)
C12_TotalMap ==
  (fnCall.fn = "normalizeVerdict" /\ fnRet # NoRet) =>
     /\ fnRet.value.verdict \in {"nourish", "allow", "distill", "block"}
     /\ fnRet.value.verdict =
          IF fnCall.word \in NOURISH_VERDICTS THEN "nourish"
          ELSE IF fnCall.word \in SHOW_VERDICTS THEN "allow"
          ELSE IF fnCall.word \in DISTILL_VERDICTS THEN "distill"
          ELSE "block"

\* "SHOW" in capitals has been normalized to allow
C12_Witness ==
  /\ fnCall.fn = "normalizeVerdict"
  /\ fnCall.arg.t = "object"
  /\ fnCall.arg.verdict = LabelSHOW
  /\ fnRet # NoRet
  /\ fnRet.value.verdict = "allow"

(***************************************************************************)
(* SpecDistill: applyVerdict called on one element one or more times       *)
(***************************************************************************)
\* a verdict and its rewrite text, as applyVerdict is called with them
Applied(verdict, distilled) == [verdict |-> verdict, distilled |-> distilled]

\* the calls made on an element in SpecDistill: "Y" is another rewrite
DistillApplied ==
  { Applied("nourish", <<>>), Applied("allow", <<>>), Applied("block", <<>>),
    Applied("distill", <<>>), Applied("distill", DistilledText),
    Applied("distill", <<89>>) }

\* the element when processTweet has hidden it: with or without a text node
DistillArticles ==
  { Article({Pending}, TRUE, ElementText(1), 0),
    Article({Pending}, FALSE, <<>>, 0) }

DistillCalls ==
  { [fn |-> "applyVerdict", article |-> a, applied |-> seq] :
      a \in DistillArticles,
      seq \in UNION {[1..n -> DistillApplied] : n \in 1..MaxApplies} }

\* the element after the calls of `applied`, made in order
RECURSIVE ApplyAll(_, _)
ApplyAll(article, applied) ==
  IF applied = <<>> THEN article
  ELSE ApplyAll(applyVerdict(article, Head(applied).verdict,
                             Head(applied).distilled),
                Tail(applied))

InitDistill ==
  /\ ObserverIdle
  /\ StatsIdle
  /\ CacheIdle
  /\ OracleIdle
  /\ QuotaIdle
  /\ ContentIdle
  /\ fnCall \in DistillCalls
  /\ fnRet = NoRet

ApplyVerdictCalls ==
  /\ fnCall.fn = "applyVerdict" /\ fnRet = NoRet
  /\ fnRet' = [t |-> "ret", value |-> ApplyAll(fnCall.article, fnCall.applied)]
  /\ UNCHANGED fnCall
  /\ UNCHANGED notCall

NextDistill == ApplyVerdictCalls

SpecDistill == InitDistill /\ [][NextDistill]_vars

(***************************************************************************)
(* C16  Applying distill is idempotent: after distill with rewrite text X  *)
(* was applied to an element two or more times the element is distilled,   *)
(* shows X and has exactly one rewritten-content indicator; after distill  *)
(* without rewrite text it is distilled and its text is what it was.       *)
(***************************************************************************)
\* every call of the sequence is distill with the rewrite text x
AllDistill(applied, x) ==
  \A k \in 1..Len(applied) : applied[k] = Applied("distill", x)

C16_DistillIdempotent ==
  (fnCall.fn = "applyVerdict" /\ fnRet # NoRet) =>
     /\ (Len(fnCall.applied) >= 2 /\ AllDistill(fnCall.applied, DistilledText))
          => /\ Distilled \in fnRet.value.classList
             /\ fnRet.value.text = DistilledText
             /\ fnRet.value.labels = 1
     /\ AllDistill(fnCall.applied, <<>>)
          => /\ Distilled \in fnRet.value.classList
             /\ fnRet.value.text = fnCall.article.text

(***************************************************************************)
(* SpecLockout: enforceLockout (background.js:597-613) for the tabs that   *)
(* chrome.tabs.query returns and for every outcome of the deliveries       *)
(***************************************************************************)
NoAlarm == [name |-> "", delay |-> 0]

\* the loop over the tabs without its try/catch: the first rejected
\* sendMessage ends the function
RECURSIVE SendAll_Unguarded(_, _, _, _)
SendAll_Unguarded(tabs, outcomes, k, sent) ==
  IF k > Len(tabs) THEN [threw |-> FALSE, sent |-> sent]
  ELSE IF outcomes[k] = "rejected"
       THEN [threw |-> TRUE, sent |-> Append(sent, tabs[k])]
  ELSE SendAll_Unguarded(tabs, outcomes, k + 1, Append(sent, tabs[k]))

\* background.js:603-609: LOCKOUT is sent to the tabs in turn, from tab k
\* on; a rejected sendMessage is caught and the loop goes on
RECURSIVE SendAll(_, _, _, _)
SendAll(tabs, outcomes, k, sent) ==
  IF k > Len(tabs) THEN [threw |-> FALSE, sent |-> sent]
  ELSE SendAll(tabs, outcomes, k + 1, Append(sent, tabs[k]))

\* enforceLockout (background.js:597-613): [storage, sent, received, alarm]
enforceLockout(st, tabs, outcomes) ==
  LET loop == SendAll(tabs, outcomes, 1, <<>>)
  IN  [storage |-> [st EXCEPT !.locked = TRUE],
       sent |-> loop.sent,
       received |-> {loop.sent[k] : k \in {j \in 1..Len(loop.sent) :
                                              outcomes[j] = "delivered"}},
       alarm |-> IF loop.threw THEN NoAlarm
                 ELSE [name |-> "closeLockoutTabs", delay |-> LOCKOUT_GRACE]]

TabIds == 1..MaxTabs

\* the tab lists chrome.tabs.query can return
TabLists ==
  {t \in UNION {[1..n -> TabIds] : n \in 0..MaxTabs} :
     \A i, j \in 1..Len(t) : i # j => t[i] # t[j]}

\* a tab with a content script receives the message; sendMessage to a tab
\* without one, or to a tab that has gone, rejects
LockoutCalls ==
  {[fn |-> "enforceLockout", tabs |-> t, outcomes |-> o] :
     t \in TabLists,
     o \in UNION {[1..n -> {"delivered", "rejected"}] : n \in 0..MaxTabs}}

InitLockout ==
  /\ ObserverIdle
  /\ StatsIdle
  /\ CacheIdle
  /\ OracleIdle
  /\ ContentIdle
  /\ HandlersIdle
  /\ storage = StorageWith([date |-> Today, seconds |-> 60], 1)
  /\ fnCall \in {c \in LockoutCalls : Len(c.outcomes) = Len(c.tabs)}
  /\ fnRet = NoRet

EnforceLockoutCall ==
  /\ fnCall.fn = "enforceLockout" /\ fnRet = NoRet
  /\ fnRet' = [t |-> "ret",
               value |-> enforceLockout(storage, fnCall.tabs, fnCall.outcomes)]
  /\ storage' = enforceLockout(storage, fnCall.tabs, fnCall.outcomes).storage
  /\ closeAlarm' =
       (enforceLockout(storage, fnCall.tabs, fnCall.outcomes).alarm # NoAlarm)
  /\ UNCHANGED <<lockQueue, hbArrived, hbPc, hbUsage, hbLimit, hbResp,
                 lockoutsSent, alarmDue, drPc, drToday, checkResp>>
  /\ UNCHANGED fnCall
  /\ UNCHANGED <<cacheVars, oracleVars, contentVars, loadVars, observerVars,
                 statVars>>

NextLockout == EnforceLockoutCall

SpecLockout == InitLockout /\ [][NextLockout]_vars

(***************************************************************************)
(* C30  Lockout broadcast reaches every surface: enforceLockout persists   *)
(* locked, sends LOCKOUT once to every tab of the query, in order, and     *)
(* schedules closeLockoutTabs after the grace delay - also when the        *)
(* delivery to one or more tabs fails; every tab whose delivery works      *)
(* receives the message.                                                   *)
(***************************************************************************)
C30_BroadcastReachesAll ==
  (fnCall.fn = "enforceLockout" /\ fnRet # NoRet) =>
     /\ storage.locked
     /\ fnRet.value.sent = fnCall.tabs
     /\ fnRet.value.received =
          {fnCall.tabs[k] : k \in {j \in 1..Len(fnCall.tabs) :
                                     fnCall.outcomes[j] = "delivered"}}
     /\ closeAlarm
     /\ fnRet.value.alarm = [name |-> "closeLockoutTabs",
                             delay |-> LOCKOUT_GRACE]

\* three tabs, the delivery to the first one failed and the other two
\* received LOCKOUT
C30_Witness ==
  /\ fnCall.fn = "enforceLockout"
  /\ fnRet # NoRet
  /\ Len(fnCall.tabs) = 3
  /\ fnCall.outcomes[1] = "rejected"
  /\ Cardinality(fnRet.value.received) = 2
  /\ closeAlarm /\ storage.locked

(***************************************************************************)
(* SpecContent: the content script on a page whose elements stay, the host *)
(* that adds elements and navigates, and the background's CLASSIFY_BATCH   *)
(* handler.  SpecResolve: the same with a host that removes and recycles   *)
(* elements.                                                               *)
(***************************************************************************)
\* the cache lookups of CLASSIFY_BATCH (background.js:696-715), from tweet
\* i on: [cachedResults, uncached, entries, dirty]
RECURSIVE CacheScan(_, _, _, _, _, _, _)
CacheScan(tweets, i, entries, dirty, t, cachedResults, uncached) ==
  IF i > Len(tweets) THEN
    [cachedResults |-> cachedResults, uncached |-> uncached,
     entries |-> entries, dirty |-> dirty]
  ELSE
    LET hash == contentHash(HashedText(tweets[i]))
        r == getCacheEntry(entries, dirty, hash, t)
    IN  IF r.ret.t = "entry" THEN
          CacheScan(tweets, i + 1, r.entries, r.dirty, t,
                    Append(cachedResults,
                           [id |-> tweets[i].id, verdict |-> r.ret.verdict,
                            reason |-> r.ret.reason, hash |-> hash,
                            distilled |-> r.ret.distilled]),
                    uncached)
        ELSE
          CacheScan(tweets, i + 1, r.entries, r.dirty, t, cachedResults,
                    Append(uncached, tweets[i]))

\* the ids of the uncached tweets whose position the oracle's list leaves out
Omitted(uncached, serverResult) ==
  IF serverResult.error = "" /\ serverResult.body.array
  THEN {uncached[i].id : i \in
          {k \in 1..Len(uncached) :
             Find(serverResult.body.list, PositionalId(k)) =
               [threw |-> FALSE, value |-> Undefined]}}
  ELSE {}

\* the number of verdicts of the list that are among `verdicts`
\* (background.js:732-748)
CountOf(list, verdicts) ==
  Cardinality({k \in 1..Len(list) : list[k].verdict \in verdicts})

\* the counting of CLASSIFY_BATCH (background.js:731-749) on the stored
\* record
countVerdicts(st, day, allVerdicts) ==
  updateDailyStats(st, day,
    Len(allVerdicts) - CountOf(allVerdicts, {"nourish", "allow", "distill"}),
    CountOf(allVerdicts, {"nourish", "allow", "distill"}),
    CountOf(allVerdicts, {"nourish"}),
    CountOf(allVerdicts, {"distill"}))

\* the handler giving the whole batch to classifyBatch
handleClassifyBatch_ClassifiesAll(mode, tweets, entries, dirty, serverResult, t) ==
  LET scan == CacheScan(tweets, 1, entries, dirty, t, <<>>, <<>>)
      c == classifyBatch(mode, tweets, serverResult, scan.entries, t)
  IN  IF scan.uncached = <<>> THEN
        [resp |-> RespVerdicts(scan.cachedResults), entries |-> scan.entries,
         dirty |-> scan.dirty, oracle |-> "notcalled", omitted |-> {}]
      ELSE
        [resp |-> IF c.threw THEN RespNull
                  ELSE RespVerdicts(scan.cachedResults \o c.results),
         entries |-> c.entries,
         dirty |-> scan.dirty \/ c.entries # scan.entries,
         oracle |-> IF c.threw THEN "threw"
                    ELSE IF serverResult.error # ""
                            \/ ~ serverResult.body.array THEN "failed"
                    ELSE "answered",
         omitted |-> IF c.threw THEN {}
                     ELSE Omitted(scan.uncached, serverResult)]

\* the CLASSIFY_BATCH handler (background.js:688-755, 813-816) for the
\* oracle outcome serverResult, up to its counting:
\* [resp, entries, dirty, oracle, omitted]
handleClassifyBatch(mode, tweets, entries, dirty, serverResult, t) ==
  LET scan == CacheScan(tweets, 1, entries, dirty, t, <<>>, <<>>)
      c == classifyBatch(mode, scan.uncached, serverResult, scan.entries, t)
  IN  IF scan.uncached = <<>> THEN
        [resp |-> RespVerdicts(scan.cachedResults), entries |-> scan.entries,
         dirty |-> scan.dirty, oracle |-> "notcalled", omitted |-> {}]
      ELSE
        [resp |-> IF c.threw THEN RespNull
                  ELSE RespVerdicts(scan.cachedResults \o c.results),
         entries |-> c.entries,
         dirty |-> scan.dirty \/ c.entries # scan.entries,
         oracle |-> IF c.threw THEN "threw"
                    ELSE IF serverResult.error # ""
                            \/ ~ serverResult.body.array THEN "failed"
                    ELSE "answered",
         omitted |-> IF c.threw THEN {}
                     ELSE Omitted(scan.uncached, serverResult)]

\* the labels and lists of the oracle in SpecContent
ContentLabels == {LabelNourish, LabelSHOW, LabelRewrite, LabelFilter}
ContentLists(n) ==
  {ListOf(f, 0, n) : f \in [0..(n - 1) -> ContentLabels \cup {Undefined}]}

\* what attemptServerCall can give for a batch of n tweets
ContentOutcomes(n) ==
  { [error |-> "server request failed", body |-> NoBody],
    [error |-> "", body |-> BodyNotArray],
    [error |-> "", body |-> BodyNull] }
  \cup {[error |-> "", body |-> BodyVerdicts(l)] : l \in ContentLists(n)}

InitContent ==
  /\ ObserverIdle
  /\ StatsIdle
  /\ CacheIdle
  /\ OracleIdle
  /\ QuotaIdle
  /\ ContentIdle
  /\ CallIdle

\* n more items can get a tracking id
Room(c, n) == Cardinality(Ids \ LiveIds(c)) >= n

BackgroundFrame ==
  /\ UNCHANGED <<storedCache, now, cacheRet, puts, putCount>>
  /\ UNCHANGED oracleVars
  /\ UNCHANGED <<callVars, loadVars, observerVars, statVars>>
  /\ UNCHANGED <<lockQueue, hbArrived, hbPc, hbUsage, hbLimit, hbResp,
                 lockoutsSent, closeAlarm, alarmDue, drPc, drToday,
                 checkResp>>

ContentFrame ==
  /\ BackgroundFrame
  /\ UNCHANGED storage

\* the page inserts element e; the MutationObserver scans it
\* (part_001:592-605)
HostAdd(e) ==
  /\ ~ connected[e]
  /\ Room(Cs, 1)
  /\ connected' = [connected EXCEPT ![e] = TRUE]
  /\ SetCs(processTweet(Cs, e))
  /\ UNCHANGED <<location, lastUrl, cacheMemory, cacheDirty>>
  /\ ContentFrame

\* the page removes element e
HostRemove(e) ==
  /\ connected[e]
  /\ connected' = [connected EXCEPT ![e] = FALSE]
  /\ UNCHANGED <<elText, classList, location, lastUrl, verdictCache,
                 elementMap, batchQueue, batchTimer, flights, cacheMemory,
                 cacheDirty>>
  /\ ContentFrame

\* the page re-uses element e for another tweet: the children of e are
\* replaced, which the observer sees as added nodes that are no tweet
\* elements (part_001:596-598, 568-586)
HostRecycle(e) ==
  /\ connected[e]
  /\ elText' = [elText EXCEPT ![e] = IF @ = RecycledText THEN ElementText(e)
                                     ELSE RecycledText]
  /\ UNCHANGED <<connected, classList, location, lastUrl, verdictCache,
                 elementMap, batchQueue, batchTimer, flights, cacheMemory,
                 cacheDirty>>
  /\ ContentFrame

\* the page goes to the next URL, at most n times
NavigateWithin(n) ==
  /\ location < n
  /\ location' = location + 1
  /\ UNCHANGED <<connected, elText, classList, lastUrl, verdictCache,
                 elementMap, batchQueue, batchTimer, flights, cacheMemory,
                 cacheDirty>>
  /\ ContentFrame

HostNavigate == NavigateWithin(MaxPages)

\* onNavigate that leaves the queue and its timer as they are
OnNavigate_KeepsQueue ==
  LET cleared == [Cs EXCEPT
                    !.classList = [e \in Elements |->
                                     IF connected[e] THEN {} ELSE @[e]]]
  IN  /\ location # lastUrl
      /\ Room(cleared, Cardinality({e \in Elements : connected[e]}))
      /\ lastUrl' = location
      /\ SetCs(scanForTweets(cleared, connected, 1))
      /\ UNCHANGED <<connected, location, cacheMemory, cacheDirty>>
      /\ ContentFrame

\* onNavigate (part_001:645-674)
OnNavigate ==
  LET cleared == [Cs EXCEPT
                    !.batchTimer = FALSE,
                    !.batchQueue = <<>>,
                    !.classList = [e \in Elements |->
                                     IF connected[e] THEN {} ELSE @[e]]]
  IN  /\ location # lastUrl
      /\ Room(cleared, Cardinality({e \in Elements : connected[e]}))
      /\ lastUrl' = location
      /\ SetCs(scanForTweets(cleared, connected, 1))
      /\ UNCHANGED <<connected, location, cacheMemory, cacheDirty>>
      /\ ContentFrame

\* batchTimer fires (part_001:237)
TimerFire ==
  /\ batchTimer
  /\ SetCs(flushBatch(Cs))
  /\ UNCHANGED <<connected, location, lastUrl, cacheMemory, cacheDirty>>
  /\ ContentFrame

Payload(items) ==
  [k \in 1..Len(items) |-> [id |-> items[k].id, text |-> items[k].text]]

\* the background handles the CLASSIFY_BATCH message of flight b and
\* answers (background.js:688-755); an exception in the handler answers
\* null (background.js:813-816)
HandleWithin(b, serverResult, n) ==
  LET r == handleClassifyBatch(storage.settings.classificationMode,
             Payload(b.items),
             loadCacheIntoMemory(cacheMemory, storedCache), cacheDirty,
             serverResult, now)
  IN  /\ b.st = "sent"
      /\ r.resp.t = "verdicts" =>
            storage.dailyStats.analyzed + Len(r.resp.verdicts) <= n
      /\ flights' = (flights \ {b}) \cup
                      {[b EXCEPT !.st = "answered", !.resp = r.resp,
                                 !.oracle = r.oracle, !.omitted = r.omitted]}
      /\ cacheMemory' = [loaded |-> TRUE, entries |-> r.entries]
      /\ cacheDirty' = r.dirty
      /\ storage' = IF r.resp.t = "verdicts"
                    THEN countVerdicts(storage, todayString, r.resp.verdicts)
                    ELSE storage
      /\ UNCHANGED <<connected, elText, classList, location, lastUrl,
                     verdictCache, elementMap, batchQueue, batchTimer>>
      /\ BackgroundFrame

BgHandle(b, serverResult) == HandleWithin(b, serverResult, MaxStats)

\* the service worker goes away before it answers: chrome.runtime.lastError
\* is set and sendMessage resolves with null (part_001:58-60)
ChannelBreaks(b) ==
  /\ b.st = "sent"
  /\ flights' = (flights \ {b}) \cup
                  {[b EXCEPT !.st = "answered", !.resp = RespNull]}
  /\ UNCHANGED <<connected, elText, classList, location, lastUrl,
                 verdictCache, elementMap, batchQueue, batchTimer,
                 cacheMemory, cacheDirty>>
  /\ ContentFrame

\* sendMessage resolves and flushBatch continues (part_001:309-378)
Deliver(b) ==
  /\ b.st = "answered"
  /\ SetCs(flushBatchContinues([Cs EXCEPT !.flights = @ \ {b}], connected,
                               location, b))
  /\ UNCHANGED <<connected, location, lastUrl, cacheMemory, cacheDirty>>
  /\ ContentFrame

NextContent ==
  \/ \E e \in Elements : HostAdd(e)
  \/ HostNavigate
  \/ OnNavigate
  \/ TimerFire
  \/ \E b \in flights :
        \E serverResult \in ContentOutcomes(Len(b.items)) :
           BgHandle(b, serverResult)
  \/ \E b \in flights : ChannelBreaks(b)
  \/ \E b \in flights : Deliver(b)

SpecContent == InitContent /\ [][NextContent]_vars

NextResolve ==
  \/ \E e \in Elements : HostAdd(e)
  \/ \E e \in Elements : HostRemove(e)
  \/ \E e \in Elements : HostRecycle(e)
  \/ TimerFire
  \/ \E b \in flights :
        \E serverResult \in ContentOutcomes(Len(b.items)) :
           BgHandle(b, serverResult)
  \/ \E b \in flights : Deliver(b)

SpecResolve == InitContent /\ [][NextResolve]_vars

(***************************************************************************)
(* C1  Nothing is shown before it is approved: an element that             *)
(* processTweet has handled is in the hidden pending state until a verdict *)
(* is applied to it; no failure path takes it out of pending.              *)
(***************************************************************************)
C1_HiddenUntilVerdict ==
  \A e \in Elements :
     classList[e] # {} =>
        \/ Pending \in classList[e]
        \/ classList[e] \cap VerdictClasses # {}

(***************************************************************************)
(* C3  When the oracle's list leaves out the position of an item, the item *)
(* stays pending when the response is resolved: its element gets neither a *)
(* visible class nor filtered.                                             *)
(***************************************************************************)
C3_OmittedStayPending ==
  [][\A b \in flights :
       Deliver(b) =>
          \A id \in b.omitted :
             classList'[ItemOf(b.items, id).element] =
               classList[ItemOf(b.items, id).element]]_vars

(***************************************************************************)
(* C4  No item stays pending forever.  The continuation of flushBatch      *)
(* after `await sendMessage` is a microtask of a promise that has          *)
(* resolved: the event loop runs it, so delivery of an answered call is    *)
(* weakly fair.  Once the call of a batch has returned - with verdicts,    *)
(* with a partial list, with the verdicts of a failed oracle call or with  *)
(* null - every pending element of that batch leaves pending.              *)
(***************************************************************************)
NextPending ==
  \/ \E e \in Elements : HostAdd(e)
  \/ TimerFire
  \/ \E b \in flights :
        \E serverResult \in ContentOutcomes(Len(b.items)) :
           BgHandle(b, serverResult)
  \/ \E b \in flights : ChannelBreaks(b)
  \/ \E b \in flights : Deliver(b)

SpecPending ==
  /\ InitContent
  /\ [][NextPending]_vars
  /\ WF_vars(\E b \in flights : Deliver(b))

Returned(e) ==
  \E b \in flights :
     /\ b.st = "answered"
     /\ \E k \in 1..Len(b.items) : b.items[k].element = e

C4_LeavesPending ==
  \A e \in Elements :
     (Pending \in classList[e] /\ Returned(e)) ~> (Pending \notin classList[e])

\* every call has returned and was delivered: one batch ended unclassified,
\* another one with a verdict, and nothing is pending
C4_Witness ==
  /\ flights = {}
  /\ batchQueue = <<>>
  /\ \A e \in Elements : classList[e] # {} /\ Pending \notin classList[e]
  /\ \E e \in Elements : Unclassified \in classList[e]
  /\ \E e \in Elements : classList[e] \cap VerdictClasses # {}

ByFailure(b, k) ==
  \/ b.oracle = "failed"
     /\ b.items[k].hash \notin
          CacheHashes(loadCacheIntoMemory(cacheMemory, storedCache))
  \/ b.items[k].id \in b.omitted

C24_FailuresNotCached ==
  [][/\ \A b \in flights' \ flights :
          \A k \in 1..Len(b.items) :
             (b.st = "answered" /\ ByFailure(b, k)) =>
                b.items[k].hash \notin CacheHashes(cacheMemory'.entries)
     /\ \A b \in flights :
          Deliver(b) =>
             \A k \in 1..Len(b.items) :
                (b.oracle = "failed" \/ b.items[k].id \in b.omitted) =>
                   verdictCache'[b.items[k].hash] =
                     verdictCache[b.items[k].hash]]_vars

(***************************************************************************)
(* C25  The detector deduplicates against in-flight work: while an item    *)
(* with fingerprint f is in a batch that was sent and not yet resolved, no *)
(* other item with the fingerprint f is sent: the items of all unresolved  *)
(* CLASSIFY_BATCH calls have pairwise different fingerprints.              *)
(***************************************************************************)
C25_NoSecondRequest ==
  \A b1, b2 \in flights :
     \A k1 \in 1..Len(b1.items), k2 \in 1..Len(b2.items) :
        b1.items[k1].hash = b2.items[k2].hash => (b1 = b2 /\ k1 = k2)

(***************************************************************************)
(* SpecReobserve: one element, observed again after each navigation while  *)
(* its earlier batches are in flight                                       *)
(***************************************************************************)
NextReobserve ==
  \/ HostAdd(1)
  \/ NavigateWithin(MaxViews)
  \/ OnNavigate
  \/ TimerFire
  \/ \E b \in flights :
        \E serverResult \in ContentOutcomes(Len(b.items)) :
           HandleWithin(b, serverResult, MaxCounted)
  \/ \E b \in flights : Deliver(b)

SpecReobserve == InitContent /\ [][NextReobserve]_vars

(***************************************************************************)
(* C26  Out-of-order resolution is safe: when two answered calls wait for  *)
(* their continuation, the oracle was reached for both and their answers   *)
(* give the same verdict for the same fingerprint, the classes and the     *)
(* text of every element are the same after the two continuations have run *)
(* in either order - also when one element is an item of both calls.       *)
(***************************************************************************)
\* the verdict entries of an answer with the fingerprint of their item
Judged(b) ==
  {[hash |-> ItemOf(b.items, b.resp.verdicts[k].id).hash,
    verdict |-> b.resp.verdicts[k].verdict,
    distilled |-> b.resp.verdicts[k].distilled] :
      k \in 1..Len(b.resp.verdicts)}

\* the same fingerprint has the same verdict in both answers
SameVerdicts(b1, b2) ==
  \A v1 \in Judged(b1), v2 \in Judged(b2) : v1.hash = v2.hash => v1 = v2

\* the continuation of b1, then the one of b2
ResolveBoth(b1, b2) ==
  flushBatchContinues(flushBatchContinues(Cs, connected, location, b1),
                      connected, location, b2)

\* the answer holds verdicts of the oracle or of the cache
FromOracle(b) ==
  b.st = "answered" /\ b.resp.t = "verdicts" /\ b.oracle # "failed"

C26_OrderIndependent ==
  \A b1, b2 \in flights :
     (/\ b1 # b2
      /\ FromOracle(b1) /\ FromOracle(b2)
      /\ SameVerdicts(b1, b2)) =>
        /\ ResolveBoth(b1, b2).classList = ResolveBoth(b2, b1).classList
        /\ ResolveBoth(b1, b2).elText = ResolveBoth(b2, b1).elText

(***************************************************************************)
(* C38  The thread-context override is not persisted: when a filter        *)
(* verdict is upgraded on a thread page the element is approved, while the *)
(* content script's cache gets the filter verdict and the background's     *)
(* cache is left as it is; when the same content is observed again on a    *)
(* page that is not a thread page, it is filtered.                         *)
(***************************************************************************)
C38_OverrideNotPersisted ==
  [][/\ \A b \in flights :
          (Deliver(b) /\ b.resp.t = "verdicts") =>
             /\ cacheMemory' = cacheMemory /\ storedCache' = storedCache
             /\ \A k \in 1..Len(b.resp.verdicts) :
                   LET v == b.resp.verdicts[k]
                       e == ItemOf(b.items, v.id).element
                   IN  (/\ isOnThreadPage(location) /\ v.verdict = "block"
                        /\ e \in ByThreadAuthor /\ connected[e]
                        /\ v.hash # NoHash) =>
                          /\ Approved \in classList'[e]
                          /\ verdictCache'[v.hash].t = "v"
                          /\ verdictCache'[v.hash].verdict = "block"
     /\ (OnNavigate /\ ~ isOnThreadPage(location)) =>
           \A e \in Elements :
              (/\ connected[e]
               /\ verdictCache[contentHash(elText[e])].t = "v"
               /\ verdictCache[contentHash(elText[e])].verdict = "block") =>
                 classList'[e] = {Filtered}]_vars

\* the author's element is approved on the thread page while both caches
\* hold the filter verdict for its text
C38_Witness ==
  /\ isOnThreadPage(location)
  /\ connected[1]
  /\ Approved \in classList[1]
  /\ verdictCache[contentHash(elText[1])].verdict = "block"
  /\ CacheLookup(cacheMemory.entries, contentHash(elText[1])) # Miss
  /\ CacheLookup(cacheMemory.entries, contentHash(elText[1])).verdict = "block"

(***************************************************************************)
(* SpecObserveAgain: the elements of one view, each given to processTweet  *)
(* any number of times while the batches are sent and resolved             *)
(***************************************************************************)
\* the observer's callback gets connected element e again, as an added node
\* or below one (part_001:592-605, 568-586)
ObservedAgain(e) ==
  /\ connected[e]
  /\ Room(Cs, 1)
  /\ SetCs(processTweet(Cs, e))
  /\ fnCall' = [fn |-> "processTweet", article |-> e]
  /\ UNCHANGED <<connected, location, lastUrl, cacheMemory, cacheDirty, fnRet>>
  /\ UNCHANGED <<storedCache, now, cacheRet, puts, putCount>>
  /\ UNCHANGED <<oracleVars, quotaVars, loadVars, observerVars, statVars>>

NextObserveAgain ==
  \/ \E e \in Elements : HostAdd(e)
  \/ \E e \in Elements : ObservedAgain(e)
  \/ TimerFire
  \/ \E b \in flights :
        \E serverResult \in ContentOutcomes(Len(b.items)) :
           BgHandle(b, serverResult)
  \/ \E b \in flights : ChannelBreaks(b)
  \/ \E b \in flights : Deliver(b)

SpecObserveAgain == InitContent /\ [][NextObserveAgain]_vars

(***************************************************************************)
(* C34  Idempotency guard: when processTweet gets an element that carries  *)
(* a pending, terminal or unclassified marker it enqueues nothing and      *)
(* changes no state; without a navigation a marked element stays marked    *)
(* and no new item is made for it, so it is enqueued at most once however  *)
(* often it is observed.                                                   *)
(***************************************************************************)
Marked(e) == classList[e] \cap X_SHIELD_CLASSES # {}

\* the tracking ids of the items queued or in flight for element e
ItemsFor(e) ==
  {i \in ItemIds(batchQueue) : ItemOf(batchQueue, i).element = e}
    \cup UNION {{i \in ItemIds(b.items) : ItemOf(b.items, i).element = e} :
                  b \in flights}

C34_IdempotencyGuard ==
  [][\A e \in Elements :
       Marked(e) =>
         /\ ObservedAgain(e) =>
              UNCHANGED <<elText, classList, verdictCache, elementMap,
                          batchQueue, batchTimer, flights>>
         /\ Marked(e)'
         /\ ItemsFor(e)' \subseteq ItemsFor(e)]_vars

\* an element with a terminal marker and nothing queued or in flight has
\* been given to processTweet again
C34_Witness ==
  /\ fnCall.fn = "processTweet"
  /\ classList[fnCall.article] \cap VerdictClasses # {}
  /\ batchQueue = <<>>
  /\ flights = {}

(***************************************************************************)
(* C35  One presentation state per element: at every moment an element     *)
(* carries at most one of the markers pending, approved, nourished,        *)
(* distilled, filtered and unclassified, also when a channel failure and a *)
(* verdict for the same element arrive from two batches in flight.         *)
(***************************************************************************)
C35_OneMarker ==
  \A e \in Elements : Cardinality(classList[e] \cap X_SHIELD_CLASSES) <= 1

(***************************************************************************)
(* SpecBatching: the queue, its timer and the batches sent, over the views *)
(* of a visit; every sendMessage resolves with null.  The timer set by     *)
(* addToBatchQueue fires unless it is cleared (part_001:237).              *)
(***************************************************************************)
NextBatching ==
  \/ \E e \in Elements : HostAdd(e)
  \/ NavigateWithin(MaxViews)
  \/ OnNavigate
  \/ TimerFire
  \/ \E b \in flights : ChannelBreaks(b)
  \/ \E b \in flights : Deliver(b)

SpecBatching ==
  /\ InitContent
  /\ [][NextBatching]_vars
  /\ WF_vars(TimerFire)

(***************************************************************************)
(* C36  Exactly-once batching: an item accepted by addToBatchQueue leaves  *)
(* the queue only into exactly one CLASSIFY_BATCH request or when          *)
(* onNavigate discards the queue; a request carries only items that were   *)
(* in no request before and are queued no longer; and the queue does not   *)
(* stay non-empty forever.                                                 *)
(***************************************************************************)
\* the item lists of the CLASSIFY_BATCH requests sent and not yet resolved
Batches(fl) == {b.items : b \in fl}

C36_ExactlyOnce ==
  /\ [][LET sentNow == Batches(flights') \ Batches(flights)
        IN  /\ \A it \in Range(batchQueue) :
                  \/ it \in Range(batchQueue')
                  \/ lastUrl' # lastUrl
                  \/ Cardinality({its \in sentNow : it \in Range(its)}) = 1
            /\ \A its \in sentNow :
                  /\ \A it \in Range(its) :
                        /\ it \notin Range(batchQueue')
                        /\ \A b \in flights : it \notin Range(b.items)
                  /\ \A j, k \in 1..Len(its) :
                        its[j].id = its[k].id => j = k
            /\ \A b1, b2 \in flights' :
                  b1 # b2 => ItemIds(b1.items) \cap ItemIds(b2.items) = {}]_vars
  /\ (batchQueue # <<>>) ~> (batchQueue = <<>>)

\* two requests are in flight after a navigation, each with one item that
\* the timer sent, and nothing is queued
C36_Witness ==
  /\ lastUrl > 0
  /\ batchQueue = <<>>
  /\ \E b1, b2 \in flights :
        /\ b1 # b2
        /\ b1.st = "sent" /\ b2.st = "sent"
        /\ Len(b1.items) = 1 /\ Len(b2.items) = 1

(***************************************************************************)
(* SpecHandler: the CLASSIFY_BATCH handler on its own, for a batch, a      *)
(* cache and an outcome of the oracle call                                 *)
(***************************************************************************)
\* the batches of n tweets: tracking ids 101.., texts "a" or "b"
HandlerBatches(n) ==
  {[i \in 1..n |-> [id |-> 100 + i, text |-> txt[i]]] :
     txt \in [1..n -> { <<97>>, <<98>> }]}

\* the mirror before the call: any of "a" (block) and "b" (allow), fresh
HandlerCaches ==
  { <<>>,
    <<CacheEntry(contentHash(<<97>>), "block", "r", 0, <<>>)>>,
    <<CacheEntry(contentHash(<<98>>), "allow", "r", 0, <<>>)>>,
    <<CacheEntry(contentHash(<<97>>), "block", "r", 0, <<>>),
      CacheEntry(contentHash(<<98>>), "allow", "r", 0, <<>>)>> }

HandlerCalls ==
  { [fn |-> "CLASSIFY_BATCH", mode |-> m, tweets |-> tw, entries |-> en,
     serverResult |-> sr] :
      m \in {"local", "api"},
      tw \in UNION {HandlerBatches(n) : n \in 1..MaxBatch},
      en \in HandlerCaches,
      sr \in ContentOutcomes(MaxBatch) }

InitHandler ==
  /\ ObserverIdle
  /\ StatsIdle
  /\ CacheIdle
  /\ OracleIdle
  /\ QuotaIdle
  /\ ContentIdle
  /\ fnCall \in HandlerCalls
  /\ fnRet = NoRet

ClassifyBatchHandled ==
  /\ fnCall.fn = "CLASSIFY_BATCH" /\ fnRet = NoRet
  /\ fnRet' = [t |-> "ret",
               value |-> handleClassifyBatch(fnCall.mode, fnCall.tweets,
                                             fnCall.entries, FALSE,
                                             fnCall.serverResult, 0)]
  /\ UNCHANGED fnCall
  /\ UNCHANGED notCall

NextHandler == ClassifyBatchHandled

SpecHandler == InitHandler /\ [][NextHandler]_vars

(***************************************************************************)
(* C37  Verdicts are never cross-wired: the response to a CLASSIFY_BATCH   *)
(* request with distinct tracking ids holds exactly one verdict per item,  *)
(* with the item's tracking id, the fingerprint of the item's text and the *)
(* verdict of that text - the cached one, or the one the oracle gave for   *)
(* the item's position among the uncached items - whatever part of the     *)
(* batch the cache served.  (As stated for every request; it holds for the *)
(* requests whose oracle call, if one was made, returned a verdict list.)  *)
(***************************************************************************)
\* tweet k of the call is in the mirror
ServedFromCache(k) ==
  contentHash(fnCall.tweets[k].text) \in CacheHashes(fnCall.entries)

\* the verdict of the text of tweet k: the cached one, or the oracle's for
\* the position of the tweet among the uncached ones, counted from 0
VerdictFor(k) ==
  IF ServedFromCache(k)
  THEN CacheLookup(fnCall.entries,
                   contentHash(fnCall.tweets[k].text)).verdict
  ELSE LET p == Cardinality({j \in 1..(k - 1) : ~ ServedFromCache(j)})
           list == fnCall.serverResult.body.list
           at == {i \in 1..Len(list) : list[i].id = p}
       IN  IF at = {} THEN "block"
           ELSE normalizeVerdict(list[CHOOSE i \in at : TRUE]).verdict

\* the response has exactly one verdict for every tweet, with the tweet's
\* id, fingerprint and verdict
Wired ==
  /\ fnRet.value.resp.t = "verdicts"
  /\ Len(fnRet.value.resp.verdicts) = Len(fnCall.tweets)
  /\ \A k \in 1..Len(fnCall.tweets) :
        \E i \in 1..Len(fnRet.value.resp.verdicts) :
           LET v == fnRet.value.resp.verdicts[i]
           IN  /\ v.id = fnCall.tweets[k].id
               /\ v.hash = contentHash(fnCall.tweets[k].text)
               /\ v.verdict = VerdictFor(k)

\* the oracle was not called, or it returned a verdict list
OracleGaveList ==
  \/ \A k \in 1..Len(fnCall.tweets) : ServedFromCache(k)
  \/ /\ fnCall.serverResult.error = ""
     /\ fnCall.serverResult.body.array

ClassOf(verdict) ==
  IF verdict = "nourish" THEN Nourished
  ELSE IF verdict = "distill" THEN Distilled
  ELSE IF verdict = "allow" THEN Approved
  ELSE Filtered

C13_ThreadOverride ==
  [][\A b \in flights :
       (Deliver(b) /\ b.resp.t = "verdicts") =>
          \A k \in 1..Len(b.resp.verdicts) :
             LET v == b.resp.verdicts[k]
                 e == ItemOf(b.items, v.id).element
                 upgraded == /\ isOnThreadPage(location)
                             /\ v.verdict = "block"
                             /\ e \in ByThreadAuthor
             IN  connected[e] =>
                   classList'[e] \cap VerdictClasses =
                     {IF upgraded THEN Approved ELSE ClassOf(v.verdict)}]_vars

\* on a thread page both elements were resolved with filter: the author's
\* is approved, the other one is filtered
C13_Witness ==
  /\ isOnThreadPage(location)
  /\ flights = {}
  /\ \A e \in Elements :
        /\ connected[e]
        /\ verdictCache[contentHash(ElementText(e))].t = "v"
        /\ verdictCache[contentHash(ElementText(e))].verdict = "block"
  /\ \A e \in ByThreadAuthor : Approved \in classList[e]
  /\ \A e \in Elements \ ByThreadAuthor : Filtered \in classList[e]

(***************************************************************************)
(* C27  Navigation supersedes the queue: when onNavigate has run, the      *)
(* items of the queue and of the batches it has sent are those of its own  *)
(* scan - one for each element in the document that has no cached verdict, *)
(* none left from before - the timer is armed exactly when the queue is    *)
(* not empty, and every element in the document carries only what          *)
(* processTweet gives a new observation: pending, or the class of its      *)
(* cached verdict.                                                         *)
(***************************************************************************)
\* the items queued or sent by the step
ItemsAfter ==
  Range(batchQueue') \cup UNION {Range(b.items) : b \in flights' \ flights}

C27_NavigationSupersedes ==
  [][OnNavigate =>
       /\ batchTimer' = (batchQueue' # <<>>)
       /\ \A i \in ItemsAfter : connected[i.element]
       /\ \A e \in Elements :
            connected[e] =>
              LET cached == verdictCache[contentHash(elText[e])]
                  mine == {i \in ItemsAfter : i.element = e}
              IN  IF cached.t = "v"
                  THEN /\ classList'[e] = {ClassOf(cached.verdict)}
                       /\ mine = {}
                  ELSE /\ classList'[e] = {Pending}
                       /\ Cardinality(mine) = 1
                       /\ \A i \in mine : i.hash = contentHash(elText[e])]_vars

\* an element was queued on the first page and never sent: after the
\* navigation it is queued once, as a new item, and the timer runs
C27_Witness ==
  /\ lastUrl # 0
  /\ flights = {}
  /\ batchTimer
  /\ Len(batchQueue) = 1
  /\ \E e \in Elements :
        /\ connected[e]
        /\ batchQueue[1].element = e
        /\ classList[e] = {Pending}

(***************************************************************************)
(* C28  Queue and timer invariant: between handlers the batch timer is     *)
(* armed exactly when the queue is not empty, the queue holds fewer than   *)
(* BATCH_SIZE items, and every batch that was sent has between 1 and       *)
(* BATCH_SIZE items; the timer firing sends whatever is queued as one      *)
(* batch and leaves the queue empty and the timer off.                     *)
(***************************************************************************)
QueueAndTimer ==
  /\ batchTimer = (batchQueue # <<>>)
  /\ Len(batchQueue) < BATCH_SIZE
  /\ \A b \in flights : Len(b.items) >= 1 /\ Len(b.items) <= BATCH_SIZE

C28_QueueAndTimer ==
  /\ []QueueAndTimer
  /\ [][TimerFire =>
          /\ batchQueue' = <<>>
          /\ ~ batchTimer'
          /\ \E b \in flights' \ flights : b.items = batchQueue]_vars

\* the enqueue that reached BATCH_SIZE has flushed and cancelled the timer,
\* after the timer had sent a single item
C28_Witness ==
  /\ batchQueue = <<>>
  /\ ~ batchTimer
  /\ \E b \in flights : Len(b.items) = BATCH_SIZE /\ b.st = "sent"
  /\ \E e \in Elements : classList[e] \cap VerdictClasses # {}

(***************************************************************************)
(* C29  The thread-context override covers every filter verdict: once the  *)
(* content script has taken notice of a thread view, no element in the     *)
(* document that is authored by the thread's author is filtered, whether   *)
(* its verdict came with a resolved batch or from verdictCache when        *)
(* processTweet handled it.                                                *)
(***************************************************************************)
C29_OverrideEveryPath ==
  (isOnThreadPage(location) /\ lastUrl = location) =>
     \A e \in ByThreadAuthor :
        connected[e] => Filtered \notin classList[e]

(***************************************************************************)
(* C18  A verdict follows the content, not the node: when a response is    *)
(* resolved, every element whose classes it changes holds the content of   *)
(* an item of the batch - its fingerprint is the fingerprint of an item    *)
(* the response has a verdict for, or it shows the rewrite that an earlier *)
(* distill verdict put into it.                                            *)
(***************************************************************************)
C18_FollowsContent ==
  [][\A b \in flights :
       (Deliver(b) /\ b.resp.t = "verdicts") =>
          \A e \in Elements :
             classList'[e] # classList[e] =>
               \/ elText[e] = DistilledText
               \/ \E k \in 1..Len(b.resp.verdicts) :
                     ItemOf(b.items, b.resp.verdicts[k].id).hash =
                       contentHash(elText[e])]_vars

====
